---- MODULE Spec2Model ----
(***************************************************************************)
(* PostBOUND: the QEP-S synopsis of the TONIC operator selection           *)
(* (postbound/optimizer/strategies/tonic.py) and the MySQL hint compiler   *)
(* (postbound/db/mysql.py) as state machines.                              *)
(*                                                                         *)
(* Python floats are modelled as exact rationals <<numerator,              *)
(* denominator>> in lowest terms; Python dicts as sequences of entries in  *)
(* insertion order; strings that the code formats as sequences of tokens   *)
(* whose concatenation is the text.                                        *)
(***************************************************************************)
EXTENDS Integers, Sequences, FiniteSets, TLC

VARIABLES
    qeps,        \* the synopsis of the strategy: path -> QepsNode
    twin,        \* a second synopsis, created alike, fed the same integrate_costs calls only
    observed,    \* log: <<path, operator>> -> the costs update_costs was called with, in order
    calls,       \* number of calls made on the synopsis so far
    integrations,\* number of integrate_costs calls among them
    result,      \* what the last call returned or raised
    hint_parts,  \* the HintParts the hint compiler holds
    hint_result, \* what the last call of the hint compiler returned or raised
    hinted_query,\* a HintedMospQuery (ues/postgres/hint.py)
    hinted_call, \* the last call on the HintedMospQuery and what it was before the call
    other_query, \* a second HintedMospQuery, the argument of merge_with
    mysql,       \* a MysqlInterface: _cache_enabled and _query_cache
    query_result,\* the last execute_query call and what became of its result
    str_methods  \* the __str__ of StaticValueExpression, CastExpression and Explain

vars == <<qeps, twin, observed, calls, integrations, result, hint_parts, hint_result,
          hinted_query, hinted_call, other_query, mysql, query_result, str_methods>>

qepsVars == <<qeps, twin, observed, calls, integrations, result>>
hintVars == <<hint_parts, hint_result>>
mospVars == <<hinted_query, hinted_call, other_query>>
dbVars == <<mysql, query_result, str_methods>>

(***************************************************************************)
(* Bounds of the model.                                                    *)
(***************************************************************************)
MaxCalls == 3
MaxIntegrations == 2
MaxCost == 2
MaxLen == 2

None == "None"

Tables == {"R", "S", "T"}

\* the join operators the synopsis learns about
QepsOperators == {"NestedLoopJoin", "HashJoin"}

Range(s) == {s[i] : i \in 1..Len(s)}

(***************************************************************************)
(* Exact rationals for the float costs.                                    *)
(***************************************************************************)
RECURSIVE Gcd(_, _)
Gcd(a, b) == IF b = 0 THEN a ELSE Gcd(b, a % b)

Rat(n, d) == LET g == Gcd(n, d) IN <<n \div g, d \div g>>

RatAdd(x, y) == Rat(x[1] * y[2] + y[1] * x[2], x[2] * y[2])

RatMul(x, y) == Rat(x[1] * y[1], x[2] * y[2])

RatLess(x, y) == x[1] * y[2] < y[1] * x[2]

FromInt(c) == <<c, 1>>

\* how a synopsis is created: filter_aware and gamma in (0, 1]; 0.8 is the default
Configurations ==
    {[filter_aware |-> FALSE, gamma |-> <<4, 5>>],
     [filter_aware |-> TRUE, gamma |-> <<1, 2>>]}

(***************************************************************************)
(* QepsIdentifier: a frozenset of tables and an optional filter predicate. *)
(* Equality is structural (tables and filter_predicate).                   *)
(***************************************************************************)
QepsIdentifier(tables, filter_predicate) ==
    [tables |-> tables, filter_predicate |-> filter_predicate]

\* the step from a node to its _subquery_root, written as a path element
SubqueryRootKey == [tables |-> {}, filter_predicate |-> "_subquery_root"]

(***************************************************************************)
(* QepsNode.  child_nodes and _subquery_root are the paths that extend the *)
(* node's path by one element; operator_costs keeps insertion order.       *)
(***************************************************************************)
QepsNode(filter_aware, gamma) ==
    [filter_aware |-> filter_aware, gamma |-> gamma, operator_costs |-> <<>>]

IsPrefix(p, q) == Len(p) <= Len(q) /\ SubSeq(q, 1, Len(p)) = p

\* the keys of self.child_nodes
ChildKeys(q, self) ==
    {p[Len(p)] : p \in {x \in DOMAIN q : Len(x) = Len(self) + 1 /\ IsPrefix(self, x)
                                         /\ x[Len(x)] # SubqueryRootKey}}

\* a truth value that looks at the operator costs only
NodeBool_costs_only(q, self) == Len(q[self].operator_costs) > 0

\* QepsNode.__bool__
NodeBool(q, self) ==
    Cardinality(ChildKeys(q, self)) > 0 \/ Len(q[self].operator_costs) > 0

\* a default factory that forgets the parent's gamma and falls back on the default
init_qeps_default_gamma(node) == QepsNode(node.filter_aware, <<4, 5>>)

\* QepsNode._init_qeps: the default factory of child_nodes
init_qeps(node) == QepsNode(node.filter_aware, node.gamma)

\* self.child_nodes[identifier] of the defaultdict: creates the child on first access
child_nodes(q, self, identifier) ==
    LET p == Append(self, identifier)
    IN IF p \in DOMAIN q THEN q ELSE q @@ (p :> init_qeps(q[self]))

\* a subquery_root that is replaced by a new node on every access
subquery_root_always_new(q, self) ==
    LET p == Append(self, SubqueryRootKey)
    IN [x \in {y \in DOMAIN q : ~IsPrefix(p, y)} \cup {p} |->
           IF x = p THEN QepsNode(q[self].filter_aware, q[self].gamma) ELSE q[x]]

\* the property QepsNode.subquery_root: a missing or falsy (empty) _subquery_root
\* is replaced by a new node
subquery_root(q, self) ==
    LET p == Append(self, SubqueryRootKey)
    IN IF p \in DOMAIN q /\ NodeBool(q, p)
       THEN q
       ELSE [x \in {y \in DOMAIN q : ~IsPrefix(p, y)} \cup {p} |->
                IF x = p THEN QepsNode(q[self].filter_aware, q[self].gamma) ELSE q[x]]

(***************************************************************************)
(* Join trees (postbound.optimizer.jointree): BaseTableNode and            *)
(* IntermediateJoinNode; a PhysicalQueryPlan carries an operator per join. *)
(***************************************************************************)
BaseTableNode(table) == [kind |-> "base", table |-> table]

IntermediateJoinNode(left_child, right_child, operator) ==
    [kind |-> "join", left_child |-> left_child, right_child |-> right_child,
     operator |-> operator]

RECURSIVE tables(_)
tables(node) ==
    IF node.kind = "base" THEN {node.table}
    ELSE tables(node.left_child) \cup tables(node.right_child)

\* a linearization that puts the node before its right subtree
RECURSIVE iterate_join_tree_node_first(_)
iterate_join_tree_node_first(current_node) ==
    IF current_node.kind = "base" THEN <<>>
    ELSE <<current_node>> \o iterate_join_tree_node_first(current_node.right_child)

\* the right subtree is expanded before the node itself is appended
RECURSIVE iterate_join_tree(_)
iterate_join_tree(current_node) ==
    IF current_node.kind = "base" THEN <<>>
    ELSE Append(iterate_join_tree(current_node.right_child), current_node)

(***************************************************************************)
(* PhysicalOperatorAssignment (postbound.optimizer.physops): three dicts.  *)
(***************************************************************************)
PhysicalOperatorAssignment ==
    [scan_operators |-> <<>>, join_operators |-> <<>>, global_settings |-> <<>>]

\* dict assignment join_operators[frozenset(tables)] = operator
set_join_operator(assignment, operator, join) ==
    LET entries == assignment.join_operators
        entry == [join |-> join, operator |-> operator]
    IN [assignment EXCEPT !.join_operators =
           IF \E i \in 1..Len(entries) : entries[i].join = join
           THEN [i \in 1..Len(entries) |->
                    IF entries[i].join = join THEN entry ELSE entries[i]]
           ELSE Append(entries, entry)]

\* join_operators as a mapping: the operator assigned to a table set, or None
JoinOperatorOf(assignment, join) ==
    LET entries == assignment.join_operators
    IN IF \E i \in 1..Len(entries) : entries[i].join = join
       THEN entries[CHOOSE i \in 1..Len(entries) : entries[i].join = join].operator
       ELSE None

\* PhysicalQueryPlan.physical_operators(): the operators the plan's joins carry
RECURSIVE physical_operators(_)
physical_operators(node) ==
    IF node.kind = "base" THEN PhysicalOperatorAssignment
    ELSE LET l == physical_operators(node.left_child)
             r == physical_operators(node.right_child)
             below == [l EXCEPT !.join_operators = @ \o r.join_operators]
         IN IF node.operator = None THEN below
            ELSE set_join_operator(below, node.operator, tables(node))

(***************************************************************************)
(* The query: only its filter predicates matter to the synopsis.           *)
(***************************************************************************)
\* query.predicates().filters_for(table)
filters_for(query, table) == query[table]

(***************************************************************************)
(* QueryExecutionPlan (postbound.db.db): the plan of the database.         *)
(* direction says which child is reported as inner_child / outer_child:    *)
(* "none" (neither is set), "inner_first" or "inner_second".               *)
(***************************************************************************)
Cost(value) == [nan |-> FALSE, value |-> value]
NaNCost == [nan |-> TRUE, value |-> 0]

ScanPlan(table) ==
    [is_scan |-> TRUE, is_join |-> FALSE, table |-> table, physical_operator |-> None,
     cost |-> NaNCost, children |-> <<>>, direction |-> "none"]

JoinPlan(outer, inner, direction, table, physical_operator, cost) ==
    [is_scan |-> FALSE, is_join |-> TRUE, table |-> table,
     physical_operator |-> physical_operator, cost |-> cost,
     children |-> IF direction = "inner_first" THEN <<inner, outer>> ELSE <<outer, inner>>,
     direction |-> direction]

\* a node that is neither a scan nor a join (a sort, an aggregation), with one child
OtherPlan(child) ==
    [is_scan |-> FALSE, is_join |-> FALSE, table |-> None, physical_operator |-> None,
     cost |-> NaNCost, children |-> <<child>>, direction |-> "none"]

\* current_node.inner_child if current_node.inner_child else current_node.children[1]
inner_or_second(node) ==
    IF node.direction = "inner_first" THEN node.children[1] ELSE node.children[2]

\* next_node.outer_child if next_node.outer_child else next_node.children[0]
outer_or_first(node) ==
    IF node.direction = "inner_first" THEN node.children[2] ELSE node.children[1]

RECURSIVE plan_tables(_)
plan_tables(node) ==
    IF node.is_scan THEN {node.table}
    ELSE UNION {plan_tables(node.children[i]) : i \in 1..Len(node.children)}

RECURSIVE iterate_query_plan(_)
iterate_query_plan(current_node) ==
    IF current_node.is_scan THEN <<>>
    ELSE IF ~current_node.is_join THEN iterate_query_plan(current_node.children[1])
    ELSE Append(iterate_query_plan(inner_or_second(current_node)), current_node)

(***************************************************************************)
(* QepsNode: recommendation.                                               *)
(***************************************************************************)
\* dict_utils.argmin: the key of the smallest value, the first one among equal minima
argmin(operator_costs) ==
    LET n == Len(operator_costs)
        i == CHOOSE i \in 1..n :
                /\ \A j \in 1..n : ~RatLess(operator_costs[j].cost, operator_costs[i].cost)
                /\ \A j \in 1..(i - 1) : RatLess(operator_costs[i].cost, operator_costs[j].cost)
    IN operator_costs[i].operator

\* a recommendation from the first recorded operator on (len > 0)
current_recommendation_eager(node) ==
    IF Len(node.operator_costs) > 0 THEN argmin(node.operator_costs) ELSE None

\* a recommendation that takes the most expensive operator
current_recommendation_worst(node) ==
    IF Len(node.operator_costs) > 1
    THEN LET c == node.operator_costs
         IN c[CHOOSE i \in 1..Len(c) : \A j \in 1..Len(c) : ~RatLess(c[i].cost, c[j].cost)].operator
    ELSE None

current_recommendation(node) ==
    IF Len(node.operator_costs) > 1 THEN argmin(node.operator_costs) ELSE None

\* a key that leaves the filter out whatever filter_aware says
make_identifier_by_table(node, query, table) == QepsIdentifier({table}, None)

make_identifier(node, query, table) ==
    QepsIdentifier({table}, IF node.filter_aware THEN filters_for(query, table) ELSE None)

\* a walk that reads an operator cost of the child: the defaultdict records 0.0 for it
recommend_child_touching(q, self, identifier) ==
    LET p == Append(self, identifier)
        q1 == child_nodes(q, self, identifier)
    IN IF \E i \in 1..Len(q1[p].operator_costs) :
             q1[p].operator_costs[i].operator = "NestedLoopJoin"
       THEN q1
       ELSE [q1 EXCEPT ![p].operator_costs =
                Append(@, [operator |-> "NestedLoopJoin", cost |-> FromInt(0)])]

\* the child the recommendation walk descends to: self.child_nodes[...]
recommend_child(q, self, identifier) == child_nodes(q, self, identifier)

\* returns the synopsis (children are created lazily) and the assignment
RECURSIVE recommend_operators(_, _, _, _, _)
RECURSIVE subquery_recommendation(_, _, _, _, _)

recommend_operators(q, self, query, join_order, current_assignment) ==
    IF join_order = <<>> THEN [qeps |-> q, assignment |-> current_assignment]
    ELSE
      LET next_join == Head(join_order)
          remaining_joins == Tail(join_order)
          recommendation == current_recommendation(q[self])
          assigned == IF recommendation # None
                      THEN set_join_operator(current_assignment, recommendation,
                                             tables(next_join))
                      ELSE current_assignment
          next_node == next_join.left_child
      IN IF next_node.kind = "base"
         THEN LET identifier == make_identifier(q[self], query, next_node.table)
              IN recommend_operators(recommend_child(q, self, identifier),
                                     Append(self, identifier), query, remaining_joins,
                                     assigned)
         ELSE LET identifier == QepsIdentifier(tables(next_node), None)
                  subquery_node == Append(self, identifier)
                  sub == subquery_recommendation(recommend_child(q, self, identifier),
                                                 subquery_node, query, next_node, assigned)
              IN recommend_operators(sub.qeps, subquery_node, query, remaining_joins,
                                     sub.assignment)

subquery_recommendation(q, self, query, node, current_assignment) ==
    recommend_operators(subquery_root(q, self), Append(self, SubqueryRootKey), query,
                        iterate_join_tree(node), current_assignment)

(***************************************************************************)
(* QepsNode: feedback.                                                     *)
(***************************************************************************)
\* operator_costs[operator] of the defaultdict(float): 0.0 when absent
CostOf(operator_costs, operator) ==
    IF \E i \in 1..Len(operator_costs) : operator_costs[i].operator = operator
    THEN operator_costs[CHOOSE i \in 1..Len(operator_costs) :
                            operator_costs[i].operator = operator].cost
    ELSE FromInt(0)

\* an update that adds the old cost undecayed
decayed_cost_without_gamma(gamma, cost, current_cost) == RatAdd(FromInt(cost), current_cost)

\* the new value of the entry: cost + self.gamma * current_cost
decayed_cost(gamma, cost, current_cost) == RatAdd(FromInt(cost), RatMul(gamma, current_cost))

update_costs(node, operator, cost) ==
    LET entries == node.operator_costs
        entry == [operator |-> operator,
                  cost |-> decayed_cost(node.gamma, cost, CostOf(entries, operator))]
    IN [node EXCEPT !.operator_costs =
           IF \E i \in 1..Len(entries) : entries[i].operator = operator
           THEN [i \in 1..Len(entries) |->
                    IF entries[i].operator = operator THEN entry ELSE entries[i]]
           ELSE Append(entries, entry)]

\* the log of the costs observed per node and operator
Observe(obs, self, operator, cost) ==
    LET k == <<self, operator>>
    IN IF k \in DOMAIN obs THEN [obs EXCEPT ![k] = Append(@, cost)]
       ELSE obs @@ (k :> <<cost>>)

\* not current_node.table or not current_node.physical_operator or math.isnan(cost)
malformed(current_node) ==
    \/ current_node.table = None
    \/ current_node.physical_operator = None
    \/ current_node.cost.nan

base_join_check(current_node) == malformed(current_node)

\* a subquery join that is integrated unchecked
subquery_join_unchecked(current_node) == FALSE

subquery_join_check(current_node) == malformed(current_node)

Raised(q, obs) == [qeps |-> q, observed |-> obs, raised |-> TRUE]
Returned(q, obs) == [qeps |-> q, observed |-> obs, raised |-> FALSE]

RECURSIVE integrate_costs(_, _, _, _, _)
RECURSIVE integrate_base_join_costs(_, _, _, _, _, _)
RECURSIVE integrate_subquery_join_costs(_, _, _, _, _, _)
RECURSIVE integrate_subquery_costs(_, _, _, _, _)

integrate_costs(q, obs, self, query, query_plan) ==
    IF query_plan = <<>> THEN Returned(q, obs)
    ELSE
      LET next_node == Head(query_plan)
          remaining_nodes == Tail(query_plan)
          \* if not next_node.is_join: the rest is integrated first, and the walk goes on
          first == IF ~next_node.is_join
                   THEN integrate_costs(q, obs, self, query, remaining_nodes)
                   ELSE Returned(q, obs)
      IN IF first.raised THEN first
         ELSE IF Len(next_node.children) = 0 THEN Raised(first.qeps, first.observed)
         ELSE LET child_node == outer_or_first(next_node)
              IN IF child_node.is_scan
                 THEN integrate_base_join_costs(first.qeps, first.observed, self, query,
                                                next_node, remaining_nodes)
                 ELSE IF child_node.is_join
                 THEN integrate_subquery_join_costs(first.qeps, first.observed, self, query,
                                                    next_node, remaining_nodes)
                 ELSE first

integrate_base_join_costs(q, obs, self, query, current_node, remaining_nodes) ==
    IF base_join_check(current_node) THEN Raised(q, obs)
    ELSE
      LET child_identifier == make_identifier(q[self], query, current_node.table)
          child_node == Append(self, child_identifier)
          q1 == child_nodes(q, self, child_identifier)
          q2 == [q1 EXCEPT ![child_node] =
                    update_costs(@, current_node.physical_operator, current_node.cost.value)]
          obs2 == Observe(obs, child_node, current_node.physical_operator,
                          current_node.cost.value)
      IN integrate_costs(q2, obs2, child_node, query, remaining_nodes)

integrate_subquery_join_costs(q, obs, self, query, current_node, remaining_nodes) ==
    IF subquery_join_check(current_node) THEN Raised(q, obs)
    ELSE
      LET subquery_plan_node == outer_or_first(current_node)
          identifier == QepsIdentifier(plan_tables(subquery_plan_node), None)
          subquery_qeps_node == Append(self, identifier)
          sub == integrate_subquery_costs(child_nodes(q, self, identifier), obs,
                                          subquery_qeps_node, query, subquery_plan_node)
      IN IF sub.raised THEN sub
         ELSE integrate_costs(sub.qeps, sub.observed, subquery_qeps_node, query,
                              remaining_nodes)

\* a subtree whose joins are integrated at the child itself, not at its subquery root
integrate_subquery_costs_unscoped(q, obs, self, query, query_plan) ==
    integrate_costs(q, obs, self, query, iterate_query_plan(query_plan))

integrate_subquery_costs(q, obs, self, query, query_plan) ==
    integrate_costs(subquery_root(q, self), obs, Append(self, SubqueryRootKey), query,
                    iterate_query_plan(query_plan))

(***************************************************************************)
(* QepsNode.inspect: the text is not modelled, its effect on the synopsis  *)
(* is: every node below the root that the walk visits evaluates            *)
(* self.subquery_root, which creates (or replaces an empty) _subquery_root, *)
(* and descends into a non-empty one and into every child.                 *)
(***************************************************************************)
InspectVisited(q) ==
    {p \in DOMAIN q :
        /\ p # <<>>
        /\ \A i \in 1..Len(p) :
              p[i] = SubqueryRootKey => (i > 1 /\ NodeBool(q, SubSeq(p, 1, i)))}

inspect(q) ==
    LET visited == InspectVisited(q)
    IN [p \in {<<>>} \cup visited \cup {Append(v, SubqueryRootKey) : v \in visited} |->
           IF p \in {<<>>} \cup visited THEN q[p]
           ELSE LET owner == SubSeq(p, 1, Len(p) - 1)
                IN QepsNode(q[owner].filter_aware, q[owner].gamma)]

(***************************************************************************)
(* The inputs of the calls.                                                *)
(***************************************************************************)
\* the queries: the filter predicate of each table, if any
Queries ==
    {[t \in Tables |-> None],
     [t \in Tables |-> IF t = "S" THEN "S.a = 1" ELSE None]}

\* a query joins its tables a, b, c as b JOIN c, a JOIN (b JOIN c) or (b JOIN c) JOIN a
JoinedTables == <<"R", "S", "T">>

\* a LogicalJoinTree carries no operators, a PhysicalQueryPlan one operator on its joins
JoinTreesOf(op) ==
    LET a == BaseTableNode(JoinedTables[1])
        b == BaseTableNode(JoinedTables[2])
        c == BaseTableNode(JoinedTables[3])
        two == IntermediateJoinNode(b, c, op)
    IN {two, IntermediateJoinNode(a, two, op), IntermediateJoinNode(two, a, op)}

JoinTrees ==
    {[root |-> n, physical |-> FALSE] : n \in JoinTreesOf(None)}
    \cup {[root |-> n, physical |-> TRUE] : n \in JoinTreesOf("NestedLoopJoin")}

Costs == {Cost(c) : c \in 1..MaxCost}

\* what a join node of a plan reports: table, operator and cost
WellFormed(outer) ==
    {[table |-> t, physical_operator |-> op, cost |-> c] :
        t \in {CHOOSE t \in plan_tables(outer) : TRUE}, op \in QepsOperators, c \in Costs}

Malformed(outer) ==
    LET t == CHOOSE t \in plan_tables(outer) : TRUE
    IN {[table |-> None, physical_operator |-> "HashJoin", cost |-> Cost(1)],
        [table |-> t, physical_operator |-> None, cost |-> Cost(1)],
        [table |-> t, physical_operator |-> "HashJoin", cost |-> NaNCost]}

Reports(outer) == WellFormed(outer) \cup Malformed(outer)

\* a hash join reports its build side as inner_child and lists it first; the other
\* joins report neither inner_child nor outer_child
DirectionOf(report) ==
    IF report.physical_operator = "HashJoin" THEN "inner_first" ELSE "none"

JoinPlans(outers, inners) ==
    {JoinPlan(pair[1], pair[2], DirectionOf(r), r.table, r.physical_operator, r.cost) :
        pair \in outers \X inners, r \in UNION {Reports(o) : o \in outers}}

QueryPlans ==
    LET a == {ScanPlan(JoinedTables[1])}
        b == {ScanPlan(JoinedTables[2])}
        c == {ScanPlan(JoinedTables[3])}
        two == JoinPlans(b, c)
    IN two
       \cup UNION {JoinPlans(a, {t}) : t \in two}
       \cup UNION {JoinPlans({t}, a) : t \in two}
       \cup {OtherPlan(t) : t \in two}
       \cup JoinPlans({OtherPlan(x) : x \in b}, c)

(***************************************************************************)
(* The synopsis: QueryExecutionPlanSynopsis.create and its three calls.    *)
(***************************************************************************)
create(filter_aware, gamma) == (<<>> :> QepsNode(filter_aware, gamma))

\* what a call leaves in result: its name, for recommend_operators its arguments
\* and the assignment it returned, for integrate_costs whether it raised
NoQuery == [t \in Tables |-> None]
NoJoinOrder == [root |-> BaseTableNode(None), physical |-> FALSE]

Outcome(call, query, join_order, assignment, raised) ==
    [call |-> call, query |-> query, join_order |-> join_order,
     assignment |-> assignment, raised |-> raised]

NoResult == Outcome("create", NoQuery, NoJoinOrder, PhysicalOperatorAssignment, FALSE)

\* the assignment recommend_operators starts from
seed_assignment(join_order) ==
    IF join_order.physical THEN physical_operators(join_order.root)
    ELSE PhysicalOperatorAssignment

\* QueryExecutionPlanSynopsis.recommend_operators
synopsis_recommend_operators(q, query, join_order) ==
    recommend_operators(q, <<>>, query, iterate_join_tree(join_order.root),
                        seed_assignment(join_order))

\* QueryExecutionPlanSynopsis.integrate_costs
synopsis_integrate_costs(q, obs, query, query_plan) ==
    integrate_costs(q, obs, <<>>, query, iterate_query_plan(query_plan))

QepsInit ==
    /\ \E c \in Configurations :
          /\ qeps = create(c.filter_aware, c.gamma)
          /\ twin = create(c.filter_aware, c.gamma)
    /\ observed = <<>>
    /\ calls = 0
    /\ integrations = 0
    /\ result = NoResult

HintIdle ==
    /\ hint_parts = [settings |-> <<>>, hints |-> <<>>]
    /\ hint_result = [call |-> "none"]

\* HintedMospQuery.__init__: no Postgres parameter is set
MospIdle ==
    /\ hinted_query = [pg_parameters |-> <<>>]
    /\ hinted_call = [call |-> "none"]
    /\ other_query = [pg_parameters |-> <<>>]

\* the methods as their classes define them, a MysqlInterface that caches
DbIdle ==
    /\ mysql = [cache_enabled |-> TRUE, query_cache |-> <<>>]
    /\ query_result = [call |-> "none"]
    /\ str_methods = [StaticValueExpression |-> 0, CastExpression |-> 0, Explain |-> 0]

RecommendOperators ==
    /\ calls < MaxCalls
    /\ \E query \in Queries, join_order \in JoinTrees :
          LET r == synopsis_recommend_operators(qeps, query, join_order)
          IN /\ qeps' = r.qeps
             /\ result' = Outcome("recommend_operators", query, join_order, r.assignment,
                                  FALSE)
    /\ calls' = calls + 1
    /\ UNCHANGED <<twin, observed, integrations, hintVars, mospVars, dbVars>>

IntegrateCosts ==
    /\ calls < MaxCalls
    /\ integrations < MaxIntegrations
    /\ \E query \in Queries, query_plan \in QueryPlans :
          LET r == synopsis_integrate_costs(qeps, observed, query, query_plan)
          IN /\ qeps' = r.qeps
             /\ observed' = r.observed
             /\ twin' = synopsis_integrate_costs(twin, <<>>, query, query_plan).qeps
             /\ result' = Outcome("integrate_costs", NoQuery, NoJoinOrder,
                                  PhysicalOperatorAssignment, r.raised)
    /\ calls' = calls + 1
    /\ integrations' = integrations + 1
    /\ UNCHANGED <<hintVars, mospVars, dbVars>>

Inspect ==
    /\ calls < MaxCalls
    /\ qeps' = inspect(qeps)
    /\ result' = Outcome("inspect", NoQuery, NoJoinOrder, PhysicalOperatorAssignment, FALSE)
    /\ calls' = calls + 1
    /\ UNCHANGED <<twin, observed, integrations, hintVars, mospVars, dbVars>>

Init == QepsInit /\ HintIdle /\ MospIdle /\ DbIdle

Next == RecommendOperators \/ IntegrateCosts \/ Inspect

Spec == Init /\ [][Next]_vars

(***************************************************************************)
(* Notions the properties of the synopsis are stated with.                 *)
(***************************************************************************)
Operators(costs) == {costs[i].operator : i \in 1..Len(costs)}

\* the sum of gamma^(n-i) * log[i]: what n updates leave, starting from 0
RECURSIVE Decayed(_, _)
Decayed(gamma, log) ==
    IF log = <<>> THEN FromInt(0)
    ELSE RatAdd(FromInt(log[Len(log)]),
                RatMul(gamma, Decayed(gamma, SubSeq(log, 1, Len(log) - 1))))

\* the key of the child a join leads to
KeyOf(filter_aware, query, join) ==
    LET left == join.left_child
    IN IF left.kind = "base"
       THEN QepsIdentifier({left.table}, IF filter_aware THEN query[left.table] ELSE None)
       ELSE QepsIdentifier(tables(left), None)

\* the joins of a join order with the node each one is processed at
RECURSIVE ProcessedAt(_, _, _, _)
ProcessedAt(filter_aware, query, self, join_order) ==
    IF join_order = <<>> THEN {}
    ELSE LET join == Head(join_order)
             child == Append(self, KeyOf(filter_aware, query, join))
         IN {[join |-> tables(join), node |-> self]}
            \cup (IF join.left_child.kind = "join"
                  THEN ProcessedAt(filter_aware, query, Append(child, SubqueryRootKey),
                                   iterate_join_tree(join.left_child))
                  ELSE {})
            \cup ProcessedAt(filter_aware, query, child, Tail(join_order))

\* the joins of the last recommend_operators call with their nodes
LastProcessed ==
    ProcessedAt(qeps[<<>>].filter_aware, result.query, <<>>,
                iterate_join_tree(result.join_order.root))

\* operator has the smallest cost and is the first recorded one that has it
IsFirstMinimum(costs, operator) ==
    \E i \in 1..Len(costs) :
        /\ costs[i].operator = operator
        /\ \A j \in 1..Len(costs) : ~RatLess(costs[j].cost, costs[i].cost)
        /\ \A j \in 1..(i - 1) : RatLess(costs[i].cost, costs[j].cost)

\* the join nodes of a plan in the order integrate_costs reaches them when none fails
RECURSIVE WalkOrder(_)
WalkOrder(query_plan) ==
    IF query_plan = <<>> THEN <<>>
    ELSE LET outer == outer_or_first(Head(query_plan))
         IN IF outer.is_scan THEN <<Head(query_plan)>> \o WalkOrder(Tail(query_plan))
            ELSE IF outer.is_join
            THEN <<Head(query_plan)>> \o WalkOrder(iterate_query_plan(outer))
                                      \o WalkOrder(Tail(query_plan))
            ELSE <<>>

IsMalformedJoin(node) ==
    node.table = None \/ node.physical_operator = None \/ node.cost.nan

\* number of costs in the log
LogSize(obs) ==
    LET RECURSIVE Sum(_)
        Sum(ks) == IF ks = {} THEN 0
                   ELSE LET k == CHOOSE k \in ks : TRUE IN Len(obs[k]) + Sum(ks \ {k})
    IN Sum(DOMAIN obs)

(***************************************************************************)
(* C1  Decay law.  Every operator-cost entry of every node is what the     *)
(* updates observed for it leave under cost_new = cost + gamma * cost_old  *)
(* from 0: after c1 then c2 it is c2 + gamma * c1; the operators of a node *)
(* are those observed at it, so an update changes no other entry.          *)
(***************************************************************************)
DecayLaw ==
    /\ \A k \in DOMAIN observed :
          LET node == qeps[k[1]]
              log == observed[k]
              cost == CostOf(node.operator_costs, k[2])
          IN /\ k[2] \in Operators(node.operator_costs)
             /\ cost = Decayed(node.gamma, log)
             /\ Len(log) = 2 =>
                   cost = RatAdd(FromInt(log[2]), RatMul(node.gamma, FromInt(log[1])))
    /\ \A p \in DOMAIN qeps :
          /\ \A o \in Operators(qeps[p].operator_costs) : <<p, o>> \in DOMAIN observed
          /\ Cardinality(Operators(qeps[p].operator_costs)) = Len(qeps[p].operator_costs)

\* integrate_costs has updated the cost of an operator at a node twice, with different costs
DecayLawWitness ==
    /\ result.call = "integrate_costs"
    /\ \E k \in DOMAIN observed :
          /\ Len(observed[k]) = 2
          /\ observed[k][1] # observed[k][2]

(***************************************************************************)
(* C2  Minimum-cost recommendation.  After recommend_operators, every join *)
(* processed at a node with more than one recorded operator is assigned    *)
(* the operator of minimum cost, the first recorded one among equal        *)
(* minima.                                                                 *)
(***************************************************************************)
MinimumCostRecommendation ==
    result.call = "recommend_operators" =>
        \A s \in LastProcessed :
            Len(qeps[s.node].operator_costs) > 1 =>
                IsFirstMinimum(qeps[s.node].operator_costs,
                               JoinOperatorOf(result.assignment, s.join))

\* NestedLoopJoin was recorded first, HashJoin is cheaper and is recommended
MinimumCostRecommendationWitness ==
    /\ result.call = "recommend_operators"
    /\ \E s \in LastProcessed :
          LET costs == qeps[s.node].operator_costs
          IN /\ Len(costs) = 2
             /\ costs[1].operator = "NestedLoopJoin"
             /\ RatLess(costs[2].cost, costs[1].cost)
             /\ JoinOperatorOf(result.assignment, s.join) = "HashJoin"

(***************************************************************************)
(* C3  No recommendation on insufficient evidence.  As claimed: a join     *)
(* processed at a node with 0 or 1 recorded operators has no entry in the  *)
(* returned assignment.                                                    *)
(***************************************************************************)
NoEntryWithoutEvidence ==
    result.call = "recommend_operators" =>
        \A s \in LastProcessed :
            Len(qeps[s.node].operator_costs) <= 1 =>
                JoinOperatorOf(result.assignment, s.join) = None

(***************************************************************************)
(* C3 as amended: for a join processed at a node with 0 or 1 recorded      *)
(* operators the returned assignment holds what the assignment the walk    *)
(* started from held: nothing for a logical join tree, the plan's own      *)
(* operator for a PhysicalQueryPlan.                                       *)
(***************************************************************************)
NoRecommendationWithoutEvidence ==
    result.call = "recommend_operators" =>
        \A s \in LastProcessed :
            Len(qeps[s.node].operator_costs) <= 1 =>
                JoinOperatorOf(result.assignment, s.join)
                    = JoinOperatorOf(seed_assignment(result.join_order), s.join)

\* a join was processed at a node with one recorded operator and got no entry
NoRecommendationWitness ==
    /\ result.call = "recommend_operators"
    /\ \E s \in LastProcessed :
          /\ Len(qeps[s.node].operator_costs) = 1
          /\ JoinOperatorOf(result.assignment, s.join) = None

(***************************************************************************)
(* C4  Determinism.  The synopsis, on which recommend_operators and        *)
(* inspect calls were interleaved, and its twin, which was fed the same    *)
(* integrate_costs calls only, recommend the same assignment for every     *)
(* query and join tree.                                                    *)
(***************************************************************************)
Determinism ==
    \A query \in Queries, join_order \in JoinTrees :
        synopsis_recommend_operators(qeps, query, join_order).assignment
            = synopsis_recommend_operators(twin, query, join_order).assignment

\* an earlier recommend_operators call created nodes the twin lacks, two integrate_costs
\* calls followed, and the synopsis recommends an operator for some join tree
DeterminismWitness ==
    /\ integrations = 2
    /\ result.call = "integrate_costs"
    /\ DOMAIN qeps # DOMAIN twin
    /\ \E query \in Queries, join_order \in JoinTrees :
          /\ ~join_order.physical
          /\ synopsis_recommend_operators(qeps, query, join_order).assignment.join_operators
                # <<>>

(***************************************************************************)
(* C5  Malformed feedback is fatal.  Whenever integrate_costs can be       *)
(* called, for every query and plan: if a join node the walk reaches lacks *)
(* a table or an operator or has a NaN cost, the call raises, and it has   *)
(* integrated exactly the costs of the joins with a scan as outer child    *)
(* that the walk reaches before the first such node.                       *)
(***************************************************************************)
MalformedFeedbackIsFatal ==
    (calls < MaxCalls /\ integrations < MaxIntegrations) =>
        \A query \in Queries, query_plan \in QueryPlans :
            LET walk == WalkOrder(iterate_query_plan(query_plan))
                bad == {i \in 1..Len(walk) : IsMalformedJoin(walk[i])}
                r == synopsis_integrate_costs(qeps, observed, query, query_plan)
            IN bad # {} =>
                  LET first == CHOOSE i \in bad : \A j \in bad : i <= j
                      before == {i \in 1..(first - 1) : outer_or_first(walk[i]).is_scan}
                  IN /\ r.raised
                     /\ LogSize(r.observed) = LogSize(observed) + Cardinality(before)

\* a call raised at the join inside a subquery, after the subquery's node was created
MalformedFeedbackWitness ==
    /\ result.call = "integrate_costs"
    /\ result.raised
    /\ \E p \in DOMAIN qeps : Len(p) = 2 /\ p[2] = SubqueryRootKey /\ ~NodeBool(qeps, p)

(***************************************************************************)
(* C6  Uniform parameters.  Every node of the synopsis, the subquery roots *)
(* and their descendants included, has the gamma and the filter_aware of   *)
(* the root.                                                               *)
(***************************************************************************)
UniformParameters ==
    \A p \in DOMAIN qeps :
        /\ qeps[p].gamma = qeps[<<>>].gamma
        /\ qeps[p].filter_aware = qeps[<<>>].filter_aware

\* a subquery root has a child, and inspect has created the child's own subquery root
UniformParametersWitness ==
    /\ result.call = "inspect"
    /\ \E p \in DOMAIN qeps :
          /\ Len(p) = 4
          /\ p[2] = SubqueryRootKey
          /\ p[4] = SubqueryRootKey

(***************************************************************************)
(* The MySQL hint compiler (postbound/db/mysql.py).                        *)
(* A string is the sequence of the tokens it is formatted from; the empty  *)
(* string is the empty sequence.                                           *)
(***************************************************************************)
HintParts(settings, hints) == [settings |-> settings, hints |-> hints]

\* HintParts.empty
empty == HintParts(<<>>, <<>>)

\* self.x + [e for e in other.x if e not in self.x]
merged_list_unfiltered(self_list, other_list) == self_list \o other_list

merged_list_short(self_list, other_list) ==
    self_list \o SelectSeq(SubSeq(other_list, 1, Len(other_list) - 1),
                           LAMBDA e : e \notin Range(self_list))

RECURSIVE merged_list_deduplicated(_, _)
merged_list_deduplicated(self_list, other_list) ==
    IF other_list = <<>> THEN self_list
    ELSE merged_list_deduplicated(
             IF Head(other_list) \in Range(self_list) THEN self_list
             ELSE Append(self_list, Head(other_list)),
             Tail(other_list))

merged_list(self_list, other_list) ==
    self_list \o SelectSeq(other_list, LAMBDA e : e \notin Range(self_list))

\* HintParts.merge_with: the receiver and the argument as the call leaves them,
\* and the HintParts it returns
merge_with(self, other) ==
    [self |-> self,
     other |-> other,
     merged |-> HintParts(merged_list(self.settings, other.settings),
                          merged_list(self.hints, other.hints))]

\* the texts the merged HintParts are built from
SettingTexts == {<<"SET optimizer_switch='", "hash_join", "=", "on", "';">>}

HintTexts == {<<"HASH_JOIN", "(", "R", ", ", "S", ")">>, <<"INDEX_SCAN", "(", "R", ")">>}

SeqsUpTo(texts, n) == UNION {[1..k -> texts] : k \in 0..n}

MergeInputs ==
    {HintParts(settings, hints) :
        settings \in SeqsUpTo(SettingTexts, MaxLen), hints \in SeqsUpTo(HintTexts, MaxLen)}

QepsIdle ==
    /\ qeps = create(FALSE, <<4, 5>>)
    /\ twin = create(FALSE, <<4, 5>>)
    /\ observed = <<>>
    /\ calls = 0
    /\ integrations = 0
    /\ result = NoResult

\* hint_parts = hint_parts.merge_with(other), with any HintParts or the receiver itself
MergeWith ==
    /\ \E other \in MergeInputs \cup {hint_parts} :
          LET r == merge_with(hint_parts, other)
          IN /\ hint_result' = [call |-> "merge_with", receiver_before |-> hint_parts,
                                other_before |-> other, receiver |-> r.self,
                                other |-> r.other, merged |-> r.merged]
             /\ hint_parts' = r.merged
    /\ UNCHANGED <<qepsVars, mospVars, dbVars>>

MergeInit == QepsIdle /\ HintIdle /\ MospIdle /\ DbIdle

MergeNext == MergeWith

SpecMerge == MergeInit /\ [][MergeNext]_vars

(***************************************************************************)
(* Hint generation.                                                        *)
(***************************************************************************)
\* an optional argument that was not passed, a table that is not bound
Absent == [absent |-> TRUE]

TableReference(full_name, alias) == [full_name |-> full_name, alias |-> alias]

\* TableReference.identifier: the name SQL sees, the alias if there is one
identifier(table) == IF table.alias # "" THEN table.alias ELSE table.full_name

MysqlOptimizerSettings ==
    ("IndexMergeJoin" :> "index_merge") @@ ("BlockNestedLoopJoin" :> "block_nested_loop")
    @@ ("HashJoin" :> "hash_join")

MysqlOptimizerHints ==
    ("BlockNestedLoopJoin" :> "BNL") @@ ("IndexMergeJoin" :> "INDEX_MERGE")
    @@ ("IndexJoin" :> "INDEX") @@ ("MergeJoin" :> "MERGE")
    @@ ("IndexScan" :> "INDEX_SCAN") @@ ("HashJoin" :> "HASH_JOIN")

\* separator.join(texts), texts being strings
RECURSIVE JoinTexts(_, _)
JoinTexts(separator, texts) ==
    IF texts = <<>> THEN <<>>
    ELSE IF Len(texts) = 1 THEN texts[1]
    ELSE texts[1] \o <<separator>> \o JoinTexts(separator, Tail(texts))

Identifiers(joined) == [i \in 1..Len(joined) |-> <<identifier(joined[i])>>]

\* a join key whose identifiers are separated by a blank only
generate_join_key_blank(joined) == JoinTexts(" ", Identifiers(joined))

\* _generate_join_key, joined being the join in the order it is iterated in
generate_join_key(joined) == JoinTexts(", ", Identifiers(joined))

\* table.get(key, key): a lookup that falls back on the key
lookup_or_key(table, key) ==
    [raised |-> FALSE, value |-> IF key \in DOMAIN table THEN table[key] ELSE key]

\* table[key] of a dict: raises KeyError when the key is missing
lookup(table, key) ==
    [raised |-> key \notin DOMAIN table,
     value |-> IF key \in DOMAIN table THEN table[key] ELSE None]

KeyError(table, keys) == \E i \in 1..Len(keys) : lookup(table, keys[i]).raised

SettingOf(enabled) ==
    IF enabled = "None" THEN "default" ELSE IF enabled = "True" THEN "on" ELSE "off"

\* a separator that is appended whether or not there is a scan hint
with_separator_always(hints) == Append(hints, <<>>)

\* if hints: hints.append("")
with_separator(hints) == IF hints # <<>> THEN Append(hints, <<>>) ELSE hints

\* _generate_mysql_operator_hints; iteration gives the order each join (a
\* frozenset) is iterated in
generate_mysql_operator_hints(operators, iteration) ==
    LET global_settings == operators.global_settings
        scan_operators == operators.scan_operators
        join_operators == operators.join_operators
        settings == [i \in 1..Len(global_settings) |->
                        <<"SET optimizer_switch='",
                          lookup(MysqlOptimizerSettings, global_settings[i].operator).value,
                          "=", SettingOf(global_settings[i].enabled), "';">>]
        scan_hints == [i \in 1..Len(scan_operators) |->
                          <<lookup(MysqlOptimizerHints, scan_operators[i].operator).value, "(",
                            identifier(scan_operators[i].table), ")">>]
        join_hints == [i \in 1..Len(join_operators) |->
                          <<lookup(MysqlOptimizerHints, join_operators[i].operator).value, "(">>
                          \o generate_join_key(iteration[join_operators[i].join])
                          \o <<")">>]
    IN IF \/ KeyError(MysqlOptimizerSettings,
                      [i \in 1..Len(global_settings) |-> global_settings[i].operator])
          \/ KeyError(MysqlOptimizerHints,
                      [i \in 1..Len(scan_operators) |-> scan_operators[i].operator])
          \/ KeyError(MysqlOptimizerHints,
                      [i \in 1..Len(join_operators) |-> join_operators[i].operator])
       THEN [raised |-> TRUE, parts |-> empty]
       ELSE [raised |-> FALSE,
             parts |-> HintParts(settings, with_separator(scan_hints) \o join_hints)]

\* the hints one entry of index_hints adds
index_hints_per_index(table, index_list) ==
    [i \in 1..Len(index_list) |->
        IF table # Absent
        THEN <<"FORCE_INDEX(", identifier(table), " ">>
             \o JoinTexts(", ", [k \in 1..Len(index_list) |-> <<index_list[k]>>]) \o <<")">>
        ELSE <<"FORCE_INDEX(">>
             \o JoinTexts(", ", [k \in 1..Len(index_list) |-> <<index_list[k]>>]) \o <<")">>]

\* the loop over index_list without its break
index_hints_without_break(table, index_list) == index_hints_per_index(table, index_list)

\* the loop over index_list: it leaves after the first index
index_hints_of(table, index_list) ==
    SubSeq(index_hints_per_index(table, index_list), 1, IF index_list = <<>> THEN 0 ELSE 1)

RECURSIVE Concat(_)
Concat(lists) == IF lists = <<>> THEN <<>> ELSE Head(lists) \o Concat(Tail(lists))

\* a stage that renders the ordering directives before the index directives
generate_mysql_index_hints_orders_first(plan_parameters) ==
    LET index_hints == plan_parameters.index_hints
        join_order_hints == plan_parameters.join_order_hints
        forced == Concat([i \in 1..Len(index_hints) |->
                             index_hints_of(index_hints[i].table, index_hints[i].index_list)])
        ordered == [i \in 1..Len(join_order_hints) |->
                       <<"JOIN_ORDER(">>
                       \o JoinTexts(", ", Identifiers(join_order_hints[i])) \o <<")">>]
    IN HintParts(<<>>, ordered \o forced)

\* _generate_mysql_index_hints
generate_mysql_index_hints(plan_parameters) ==
    LET index_hints == plan_parameters.index_hints
        join_order_hints == plan_parameters.join_order_hints
        forced == Concat([i \in 1..Len(index_hints) |->
                             index_hints_of(index_hints[i].table, index_hints[i].index_list)])
        ordered == [i \in 1..Len(join_order_hints) |->
                       <<"JOIN_ORDER(">>
                       \o JoinTexts(", ", Identifiers(join_order_hints[i])) \o <<")">>]
    IN HintParts(<<>>, forced \o ordered)

Hint(preparatory_statements, query_hints) ==
    [preparatory_statements |-> preparatory_statements, query_hints |-> query_hints]

\* a hint block that is built also when there is nothing to put in it
generate_hint_block_always(parts) ==
    Hint(JoinTexts("\n", parts.settings),
         IF parts.hints # <<>>
         THEN JoinTexts("\n", <<<<"/*+">>>>
                              \o [i \in 1..Len(parts.hints) |-> <<"  ">> \o parts.hints[i]]
                              \o <<<<"*/">>>>)
         ELSE <<>>)

\* _generate_hint_block
generate_hint_block(parts) ==
    IF parts.settings = <<>> /\ parts.hints = <<>> THEN Absent
    ELSE generate_hint_block_always(parts)

\* a query: its hint clause, if any, and its other clauses
SqlQuery(hints, clauses) == [hints |-> hints, clauses |-> clauses]

\* transform.add_clause: the query with the clause in the place of its kind, the
\* other clauses as they are
add_clause(query, clause) == [query EXCEPT !.hints = clause]

\* _apply_hint_block_to_query
apply_hint_block_to_query(query, hint_block) ==
    IF hint_block # Absent THEN add_clause(query, hint_block) ELSE query

\* `if physical_operators:`, `if plan_parameters:`: an argument that was passed;
\* an empty one gives empty HintParts whether or not its stage runs
Given(argument) == argument # Absent

\* MysqlHintService.generate_hints; join_order is evaluated and not used
generate_hints(query, join_order, operators, plan_parameters, iteration) ==
    LET operator_hints ==
            IF Given(operators)
            THEN generate_mysql_operator_hints(operators, iteration)
            ELSE [raised |-> FALSE, parts |-> empty]
        after_operators ==
            IF Given(operators)
            THEN merge_with(empty, operator_hints.parts).merged
            ELSE empty
        plan_hints ==
            IF Given(plan_parameters) THEN generate_mysql_index_hints(plan_parameters)
            ELSE empty
        after_plan ==
            IF Given(plan_parameters)
            THEN merge_with(after_operators, plan_hints).merged
            ELSE after_operators
        hint_block == generate_hint_block(after_plan)
    IN IF operator_hints.raised
       THEN [raised |-> TRUE, operator_hints |-> empty, plan_hints |-> empty,
             hint_parts |-> empty, hint_block |-> Absent, query |-> Absent]
       ELSE [raised |-> FALSE, operator_hints |-> operator_hints.parts,
             plan_hints |-> plan_hints, hint_parts |-> after_plan,
             hint_block |-> hint_block,
             query |-> apply_hint_block_to_query(query, hint_block)]

MysqlJoinHints == {"BlockNestedLoopJoin", "IndexMergeJoin", "MergeJoin", "IndexJoin", "HashJoin"}

MysqlScanHints == {"IndexScan"}

MysqlPlanHints == {"JoinOrderHint"}

\* a capability answer read off the lookup table of the hint names
supports_hint_by_lookup(hint) == hint \in DOMAIN MysqlOptimizerHints

\* MysqlHintService.supports_hint
supports_hint(hint) == hint \in MysqlJoinHints \cup MysqlScanHints \cup MysqlPlanHints

(***************************************************************************)
(* The arguments generate_hints is called with: the tables of one query,   *)
(* which SQL sees under different names.                                   *)
(***************************************************************************)
R == TableReference("R", "")
S == TableReference("S", "")
t == TableReference("title", "t")

GlobalSettings ==
    {<<>>, <<[operator |-> "HashJoin", enabled |-> "None"]>>,
     <<[operator |-> "BlockNestedLoopJoin", enabled |-> "False"],
       [operator |-> "HashJoin", enabled |-> "True"]>>,
     <<[operator |-> "MergeJoin", enabled |-> "False"]>>}

\* the dicts with up to two keys, in the order the keys were inserted; key gives
\* the key of each entry
EntriesUpToTwo(entries, key) ==
    {<<>>} \cup {<<e>> : e \in entries}
    \cup {<<pair[1], pair[2]>> : pair \in {x \in entries \X entries : key[x[1]] # key[x[2]]}}

ScanEntries == {[table |-> tab, operator |-> op] : tab \in {R, t},
                                                   op \in {"IndexScan", "SequentialScan"}}

ScanOperators == EntriesUpToTwo(ScanEntries, [e \in ScanEntries |-> e.table])

JoinEntries == {[join |-> join, operator |-> op] : join \in {{R, S}, {R, S, t}},
                                                  op \in {"HashJoin", "NestedLoopJoin"}}

JoinOperators == EntriesUpToTwo(JoinEntries, [e \in JoinEntries |-> e.join])

OperatorAssignments ==
    {[global_settings |-> g, scan_operators |-> s, join_operators |-> j] :
        g \in GlobalSettings, s \in ScanOperators, j \in JoinOperators}

\* the orders the joins of an assignment (frozensets of tables) may be iterated in
IterationOrders(operators) ==
    {[join \in {{R, S}, {R, S, t}} |-> IF join = {R, S} THEN first ELSE <<R, S, t>>] :
        first \in IF operators # Absent /\ operators.join_operators # <<>>
                  THEN {<<R, S>>, <<S, R>>} ELSE {<<R, S>>}}

IndexHints ==
    {<<>>, <<[table |-> R, index_list |-> <<"i1", "i2">>]>>,
     <<[table |-> R, index_list |-> <<>>]>>,
     <<[table |-> t, index_list |-> <<"i1">>],
       [table |-> Absent, index_list |-> <<"i1", "i2">>]>>}

JoinOrderHints == {<<>>, <<<<R, S>>, <<S, R>>>>}

PlanParameterizations ==
    {[index_hints |-> i, join_order_hints |-> o] : i \in IndexHints, o \in JoinOrderHints}

\* the query the hints are generated for, without and with a hint clause of its own
HintQueries ==
    {SqlQuery(Absent, "SELECT * FROM R, S, title t"),
     SqlQuery(Hint(<<>>, <<"/*+", "\n", "  ", "BNL", "(", "R", ")", "\n", "*/">>),
              "SELECT * FROM R, S, title t")}

\* a base table of a join tree with the upper bound of its cardinality
AnnotatedTableNode(table, upper_bound) ==
    [kind |-> "base", table |-> table, upper_bound |-> upper_bound]

\* no join order, the empty join tree, and R JOIN S with bounds 100 and 10,000
HintJoinOrders ==
    {Absent, [root |-> Absent, physical |-> FALSE],
     [root |-> IntermediateJoinNode(AnnotatedTableNode(R, 100),
                                    AnnotatedTableNode(S, 10000), None),
      physical |-> FALSE]}

\* operators and hint kinds supports_hint is asked about
HintKinds ==
    MysqlJoinHints \cup MysqlScanHints \cup MysqlPlanHints
    \cup {"NestedLoopJoin", "SequentialScan", "CardinalityHint", "UnknownOperator"}

\* the calls of the hint service with their arguments
Arguments ==
    {[call |-> "arguments", method |-> "generate_hints", query |-> args[1],
      join_order |-> args[2], physical_operators |-> args[3], plan_parameters |-> args[4],
      iteration |-> iteration] :
        args \in HintQueries \X HintJoinOrders \X (OperatorAssignments \cup {Absent})
                 \X (PlanParameterizations \cup {Absent}),
        iteration \in UNION {IterationOrders(o) : o \in OperatorAssignments}}
    \cup {[call |-> "arguments", method |-> "supports_hint", hint |-> hint] :
             hint \in HintKinds}

\* MysqlHintService.generate_hints
GenerateHints ==
    /\ hint_result.call = "arguments"
    /\ hint_result.method = "generate_hints"
    /\ LET r == generate_hints(hint_result.query, hint_result.join_order,
                               hint_result.physical_operators, hint_result.plan_parameters,
                               hint_result.iteration)
       IN /\ hint_result' = [call |-> "generate_hints", query |-> hint_result.query,
                             join_order |-> hint_result.join_order,
                             physical_operators |-> hint_result.physical_operators,
                             plan_parameters |-> hint_result.plan_parameters,
                             iteration |-> hint_result.iteration,
                             raised |-> r.raised, operator_hints |-> r.operator_hints,
                             plan_hints |-> r.plan_hints, hint_block |-> r.hint_block,
                             returned |-> r.query]
          /\ hint_parts' = r.hint_parts
    /\ UNCHANGED <<qepsVars, mospVars, dbVars>>

\* MysqlHintService.supports_hint
SupportsHint ==
    /\ hint_result.call = "arguments"
    /\ hint_result.method = "supports_hint"
    /\ hint_result' = [call |-> "supports_hint", hint |-> hint_result.hint,
                       raised |-> FALSE, returned |-> supports_hint(hint_result.hint)]
    /\ UNCHANGED <<hint_parts, qepsVars, mospVars, dbVars>>

HintsInit ==
    /\ QepsIdle
    /\ MospIdle /\ DbIdle
    /\ hint_parts = empty
    /\ \E arguments \in Arguments :
          /\ arguments.method = "generate_hints" =>
                arguments.iteration \in IterationOrders(arguments.physical_operators)
          /\ hint_result = arguments

HintsNext == GenerateHints \/ SupportsHint

SpecHints == HintsInit /\ [][HintsNext]_vars

(***************************************************************************)
(* The synopsis under bushy join orders: four tables, join trees and plans *)
(* whose outer (left) child is itself a join.  result also holds the plan   *)
(* that was integrated, the synopsis before the call and the queries and   *)
(* plans integrated so far.                                                *)
(***************************************************************************)
BushyTables == Tables \cup {"U"}

BushyQueries ==
    {[table \in BushyTables |-> None],
     [table \in BushyTables |-> IF table = "S" THEN "S.a = 1" ELSE None]}

\* S JOIN T, U JOIN ((S JOIN T) JOIN R) and (R JOIN (S JOIN T)) JOIN U
BushyJoinTrees ==
    LET r == BaseTableNode("R")
        u == BaseTableNode("U")
        st == IntermediateJoinNode(BaseTableNode("S"), BaseTableNode("T"), None)
    IN {[root |-> n, physical |-> FALSE] :
           n \in {st,
                  IntermediateJoinNode(u, IntermediateJoinNode(st, r, None), None),
                  IntermediateJoinNode(IntermediateJoinNode(r, st, None), u, None)}}

\* the joins of a plan report any operator; a join of base tables costs 1, a join
\* above it 2
BushyJoinPlans(outers, inners, cost) ==
    {JoinPlan(pair[1], pair[2], DirectionOf(r), r.table, r.physical_operator, r.cost) :
        pair \in outers \X inners,
        r \in {w \in UNION {WellFormed(o) : o \in outers} : w.cost = Cost(cost)}}

BushyQueryPlans ==
    LET r == {ScanPlan("R")}
        u == {ScanPlan("U")}
        st == BushyJoinPlans({ScanPlan("S")}, {ScanPlan("T")}, 1)
    IN st
       \cup BushyJoinPlans(u, BushyJoinPlans(st, r, 2), 2)
       \cup BushyJoinPlans(BushyJoinPlans(r, st, 2), u, 2)

NoQueryPlan == ScanPlan(None)

BushyOutcome(call, query, join_order, query_plan, assignment, raised, before, integrated) ==
    [call |-> call, query |-> query, join_order |-> join_order, query_plan |-> query_plan,
     assignment |-> assignment, raised |-> raised, before |-> before,
     integrated |-> integrated]

BushyInit ==
    /\ \E c \in Configurations :
          /\ qeps = create(c.filter_aware, c.gamma)
          /\ twin = create(c.filter_aware, c.gamma)
          /\ result = BushyOutcome("create", NoQuery, NoJoinOrder, NoQueryPlan,
                                   PhysicalOperatorAssignment, FALSE,
                                   create(c.filter_aware, c.gamma), <<>>)
    /\ observed = <<>>
    /\ calls = 0
    /\ integrations = 0
    /\ HintIdle
    /\ MospIdle /\ DbIdle

RecommendBushy ==
    /\ calls < MaxCalls
    /\ \E query \in BushyQueries, join_order \in BushyJoinTrees :
          LET r == synopsis_recommend_operators(qeps, query, join_order)
          IN /\ qeps' = r.qeps
             /\ result' = BushyOutcome("recommend_operators", query, join_order,
                                       NoQueryPlan, r.assignment, FALSE, qeps,
                                       result.integrated)
    /\ calls' = calls + 1
    /\ UNCHANGED <<twin, observed, integrations, hintVars, mospVars, dbVars>>

IntegrateBushy ==
    /\ calls < MaxCalls
    /\ integrations < MaxIntegrations
    /\ \E query \in BushyQueries, query_plan \in BushyQueryPlans :
          LET r == synopsis_integrate_costs(qeps, observed, query, query_plan)
          IN /\ qeps' = r.qeps
             /\ observed' = r.observed
             /\ twin' = synopsis_integrate_costs(twin, <<>>, query, query_plan).qeps
             /\ result' = BushyOutcome("integrate_costs", query, NoJoinOrder,
                                       query_plan, PhysicalOperatorAssignment, r.raised,
                                       qeps,
                                       Append(result.integrated,
                                              [query |-> query, query_plan |-> query_plan]))
    /\ calls' = calls + 1
    /\ integrations' = integrations + 1
    /\ UNCHANGED <<hintVars, mospVars, dbVars>>

BushyNext == RecommendBushy \/ IntegrateBushy

SpecBushy == BushyInit /\ [][BushyNext]_vars

(***************************************************************************)
(* TonicOperatorSelection: the feedback path.  The database is not part of *)
(* the strategy: its optimizer answers query_plan(hinted query) with a     *)
(* plan that has the joins and operators the hints ask for, which are      *)
(* those of the analyze plan, and costs of its own.                        *)
(***************************************************************************)
\* a plan as the database hands it out: is_analyze() and the plan nodes
AnalyzePlan(is_analyze, root) == [is_analyze |-> is_analyze, root |-> root]

\* the joins, operators and tables of a plan, without its costs
RECURSIVE PlanShape(_)
PlanShape(node) ==
    [node EXCEPT !.cost = NaNCost,
                 !.children = [i \in 1..Len(node.children) |-> PlanShape(node.children[i])]]

\* plans of two and of four tables, one of them without an operator on its join
FeedbackPlans ==
    BushyQueryPlans
    \cup {JoinPlan(ScanPlan("S"), ScanPlan("T"), "none", "S", None, Cost(1))}

ShapeOf == [plan \in FeedbackPlans |-> PlanShape(plan)]

\* self._db.optimizer().query_plan(hinted query): the plans the database may answer
native_plans(analyze_plan) ==
    {plan \in FeedbackPlans : ShapeOf[plan] = ShapeOf[analyze_plan.root]}

\* what a call of the strategy leaves: the synopsis, the integrate_costs calls it
\* made on it and whether it raised
Feedback(q, obs, integrated, raised) ==
    [qeps |-> q, observed |-> obs, integrated |-> integrated, raised |-> raised]

\* TonicOperatorSelection.integrate_cost; native_plan is what the optimizer answers
\* when no plan is passed
integrate_cost(q, obs, query, query_plan, native_plan) ==
    LET plan == IF query_plan = Absent THEN native_plan ELSE query_plan
        r == synopsis_integrate_costs(q, obs, query, plan)
    IN Feedback(r.qeps, r.observed, <<[query |-> query, query_plan |-> plan]>>, r.raised)

\* a feedback path that looks at is_analyze() only after the plan was integrated
incorporate_feedback_checked_late(q, obs, query, analyze_plan, native_plan) ==
    LET r == integrate_cost(q, obs, query, Absent, native_plan)
    IN IF ~analyze_plan.is_analyze THEN Feedback(r.qeps, r.observed, r.integrated, TRUE)
       ELSE r

\* TonicOperatorSelection.incorporate_feedback; the hinted query has the predicates
\* of the query
incorporate_feedback(q, obs, query, analyze_plan, native_plan) ==
    IF ~analyze_plan.is_analyze THEN Feedback(q, obs, <<>>, TRUE)
    ELSE integrate_cost(q, obs, query, Absent, native_plan)


FeedbackOutcome(query, analyze_plan, r, before) ==
    [call |-> "incorporate_feedback", query |-> query, analyze_plan |-> analyze_plan,
     integrated |-> r.integrated, raised |-> r.raised, before |-> before]

FeedbackInit ==
    /\ \E c \in Configurations :
          /\ qeps = create(c.filter_aware, c.gamma)
          /\ twin = create(c.filter_aware, c.gamma)
    /\ observed = <<>>
    /\ calls = 0
    /\ integrations = 0
    /\ result = [call |-> "create"]
    /\ HintIdle
    /\ MospIdle /\ DbIdle

IncorporateFeedback ==
    /\ calls < MaxCalls
    /\ \E query \in BushyQueries, is_analyze \in BOOLEAN, root \in FeedbackPlans :
          LET analyze_plan == AnalyzePlan(is_analyze, root)
          IN \E native_plan \in native_plans(analyze_plan) :
                LET r == incorporate_feedback(qeps, observed, query, analyze_plan,
                                              native_plan)
                IN /\ integrations + Len(r.integrated) <= MaxIntegrations
                   /\ qeps' = r.qeps
                   /\ observed' = r.observed
                   /\ integrations' = integrations + Len(r.integrated)
                   /\ result' = FeedbackOutcome(query, analyze_plan, r, qeps)
    /\ calls' = calls + 1
    /\ UNCHANGED <<twin, hintVars, mospVars, dbVars>>

FeedbackNext == IncorporateFeedback

SpecFeedback == FeedbackInit /\ [][FeedbackNext]_vars

(***************************************************************************)
(* HintedMospQuery (ues/postgres/hint.py): the Postgres parameters.        *)
(* A dict is the sequence of its items in insertion order.                 *)
(***************************************************************************)
HasKey(dict, key) == \E i \in 1..Len(dict) : dict[i].key = key

ValueOf(dict, key) == dict[CHOOSE i \in 1..Len(dict) : dict[i].key = key].value

\* dict[key] = value
set_item(dict, key, value) ==
    IF HasKey(dict, key)
    THEN [i \in 1..Len(dict) |->
             IF dict[i].key = key THEN [key |-> key, value |-> value] ELSE dict[i]]
    ELSE Append(dict, [key |-> key, value |-> value])

\* util.dict_merge(a, b): the items of a, updated with the items of b
RECURSIVE dict_merge(_, _)
dict_merge(a, b) ==
    IF b = <<>> THEN a
    ELSE dict_merge(set_item(a, Head(b).key, Head(b).value), Tail(b))

\* the parameter argument: None, a name or a dict
NoParameter == [kind |-> "None"]
Name(name) == [kind |-> "str", name |-> name]
Dict(dict) == [kind |-> "dict", dict |-> dict]

\* a dict argument that is merged into the parameters that are set
set_pg_param_merging(self, parameter, value, kwargs) ==
    IF parameter.kind = "None"
    THEN [self EXCEPT !.pg_parameters = dict_merge(@, kwargs)]
    ELSE IF parameter.kind = "dict"
    THEN [self EXCEPT !.pg_parameters = dict_merge(@, parameter.dict)]
    ELSE [self EXCEPT !.pg_parameters = set_item(@, parameter.name, value)]

\* HintedMospQuery.set_pg_param
set_pg_param(self, parameter, value, kwargs) ==
    IF parameter.kind = "None"
    THEN [self EXCEPT !.pg_parameters = dict_merge(@, kwargs)]
    ELSE IF parameter.kind = "dict"
    THEN [self EXCEPT !.pg_parameters = parameter.dict]
    ELSE [self EXCEPT !.pg_parameters = set_item(@, parameter.name, value)]

\* Postgres planner parameters and their values
PgParameters == {"enable_nestloop", "enable_hashjoin", "enable_mergejoin"}

PgValues == {"on", "off"}

PgItems == {[key |-> k, value |-> v] : k \in PgParameters, v \in PgValues}

PgDicts == EntriesUpToTwo(PgItems, [item \in PgItems |-> item.key])

\* set_pg_param(name, value), set_pg_param(name=value, ...) and set_pg_param(dict)
PgCalls ==
    {[mode |-> "positional", parameter |-> Name(item.key), value |-> item.value,
      kwargs |-> <<>>] : item \in PgItems}
    \cup {[mode |-> "keyword", parameter |-> NoParameter, value |-> None,
           kwargs |-> dict] : dict \in PgDicts}
    \cup {[mode |-> "dict", parameter |-> Dict(dict), value |-> None,
           kwargs |-> <<>>] : dict \in PgDicts}

SetPgParam ==
    /\ \E c \in PgCalls :
          /\ hinted_query' = set_pg_param(hinted_query, c.parameter, c.value, c.kwargs)
          /\ hinted_call' = [call |-> "set_pg_param", mode |-> c.mode,
                             parameter |-> c.parameter, value |-> c.value,
                             kwargs |-> c.kwargs, before |-> hinted_query]
    /\ UNCHANGED <<other_query, qepsVars, hintVars, dbVars>>

MospInit == QepsIdle /\ HintIdle /\ MospIdle /\ DbIdle

MospNext == SetPgParam

SpecMosp == MospInit /\ [][MospNext]_vars

(***************************************************************************)
(* HintedMospQuery: join hints, cardinality bounds and join paths.  A join *)
(* id, the hash of the frozenset of the tables of a join, is that set.     *)
(***************************************************************************)
MaxHintCalls == 3

\* a MospQuery: its base table and its joins in order
MospQuery(base, joins) == [base_table |-> base, joins |-> joins]

\* a MospJoin with a table, and a MospJoin with a subquery
TableJoin(table) == [kind |-> "MospJoin", table |-> table, subquery |-> Absent]

SubqueryJoin(subquery) == [kind |-> "MospJoin", table |-> None, subquery |-> subquery]

\* an iterable of tables given in place of a MospJoin
TableList(joined) == [kind |-> "tables", tables |-> joined]

is_subquery(join) == join.subquery # Absent

base_table(join) == IF is_subquery(join) THEN join.subquery.base_table ELSE join.table

\* MospJoin.collect_tables: the joined table, or every table of the subquery
RECURSIVE collect_tables(_)
collect_tables(join) ==
    IF ~ is_subquery(join) THEN <<join.table>>
    ELSE LET joins == join.subquery.joins
             RECURSIVE joined(_)
             joined(i) == IF i > Len(joins) THEN <<>>
                          ELSE collect_tables(joins[i]) \o joined(i + 1)
         IN <<join.subquery.base_table>> \o joined(1)

\* _join_id
join_id(join) ==
    IF join.kind = "MospJoin" THEN Range(collect_tables(join)) ELSE Range(join.tables)

\* the inner loop of __init__: the join paths of the joins of one subquery
RECURSIVE subquery_join_paths(_, _, _)
subquery_join_paths(join_paths, sq_join_path, sq_joins) ==
    IF sq_joins = <<>> THEN join_paths
    ELSE LET path == sq_join_path \o collect_tables(Head(sq_joins))
         IN subquery_join_paths(set_item(join_paths, join_id(Head(sq_joins)), path),
                                path, Tail(sq_joins))

\* the outer loop of __init__: the subqueries of a subquery are not entered
RECURSIVE query_join_paths(_, _, _)
query_join_paths(join_paths, curr_join_path, joins) ==
    IF joins = <<>> THEN join_paths
    ELSE LET join == Head(joins)
             path == curr_join_path \o collect_tables(join)
             own == set_item(join_paths, join_id(join), path)
         IN query_join_paths(IF is_subquery(join)
                             THEN subquery_join_paths(own, <<base_table(join)>>,
                                                      join.subquery.joins)
                             ELSE own,
                             path, Tail(joins))

\* HintedMospQuery.__init__
HintedMospQuery(query) ==
    [query |-> query,
     join_paths |-> query_join_paths(<<>>, <<query.base_table>>, query.joins),
     scan_hints |-> <<>>, join_hints |-> <<>>, cardinality_bounds |-> <<>>,
     join_contents |-> <<>>, pg_parameters |-> <<>>]

\* _update_join_paths: a MospJoin leaves the join paths as they are
update_join_paths(self, jid, join) ==
    IF join.kind = "MospJoin" THEN self
    ELSE [self EXCEPT !.join_paths = set_item(@, jid, join.tables)]

\* force_nestloop, force_hashjoin and force_mergejoin, node being the QueryNode
force_join(self, join, node) ==
    LET jid == join_id(join)
    IN update_join_paths([self EXCEPT !.join_hints = set_item(@, jid, node),
                                      !.join_contents = set_item(@, jid, join)],
                         jid, join)

force_nestloop(self, join) == force_join(self, join, "NestLoop")

force_hashjoin(self, join) == force_join(self, join, "HashJoin")

force_mergejoin(self, join) == force_join(self, join, "MergeJoin")

set_upperbound(self, join, nrows) ==
    LET jid == join_id(join)
    IN update_join_paths([self EXCEPT !.cardinality_bounds = set_item(@, jid, nrows),
                                      !.join_contents = set_item(@, jid, join)],
                         jid, join)

\* HintedMospQuery.merge_with
hinted_merge_with(self, other) ==
    [self EXCEPT !.scan_hints = dict_merge(@, other.scan_hints),
                 !.join_hints = dict_merge(@, other.join_hints),
                 !.cardinality_bounds = dict_merge(@, other.cardinality_bounds),
                 !.join_contents = dict_merge(@, other.join_contents)]

\* _join_path_to_str: self.join_paths[join_id] raises KeyError without the key
join_path_to_str(self, jid) ==
    IF ~ HasKey(self.join_paths, jid) THEN [raised |-> TRUE, text |-> <<>>]
    ELSE LET path == ValueOf(self.join_paths, jid)
         IN [raised |-> FALSE,
             text |-> JoinTexts(" ", [i \in 1..Len(path) |-> <<path[i]>>])]

join_hint_to_str(self, jid) ==
    <<ValueOf(self.join_hints, jid), "(">> \o join_path_to_str(self, jid).text \o <<")">>

cardinality_bound_to_str(self, jid) ==
    <<"Rows(">> \o join_path_to_str(self, jid).text
    \o <<" #", ValueOf(self.cardinality_bounds, jid), ")">>

pg_params_to_str(self) ==
    JoinTexts(" ", [i \in 1..Len(self.pg_parameters) |->
                       <<"SET ", self.pg_parameters[i].key, " = ", "'",
                         self.pg_parameters[i].value, "'", ";">>])

\* generate_sqlcomment: the lines of the comment, or the KeyError of a join id
\* without a join path
generate_sqlcomment(self, strip_empty) ==
    LET join_ids == [i \in 1..Len(self.join_hints) |-> self.join_hints[i].key]
        bound_ids == [i \in 1..Len(self.cardinality_bounds) |->
                         self.cardinality_bounds[i].key]
    IN IF /\ strip_empty
          /\ self.scan_hints = <<>> /\ self.join_hints = <<>>
          /\ self.cardinality_bounds = <<>>
       THEN [raised |-> FALSE, text |-> <<>>]
       ELSE IF \E jid \in Range(join_ids) \cup Range(bound_ids) :
                  join_path_to_str(self, jid).raised
       THEN [raised |-> TRUE, text |-> <<>>]
       ELSE [raised |-> FALSE,
             text |-> <<pg_params_to_str(self), <<"/*+">>>>
                      \o [i \in 1..Len(join_ids) |-> join_hint_to_str(self, join_ids[i])]
                      \o [i \in 1..Len(bound_ids) |->
                             cardinality_bound_to_str(self, bound_ids[i])]
                      \o <<<<"*/">>>>]

\* B JOIN C, and B JOIN (C JOIN D) whose second operand is a subquery
InnerQuery == MospQuery("C", <<TableJoin("D")>>)

FlatQuery == MospQuery("B", <<TableJoin("C")>>)

OuterQuery == MospQuery("B", <<SubqueryJoin(InnerQuery)>>)

\* a query with its hints and the subquery whose hints are merged into them
HintedPairs ==
    {[query |-> MospQuery("A", <<TableJoin("B"), TableJoin("C")>>), subquery |-> FlatQuery],
     [query |-> MospQuery("A", <<SubqueryJoin(FlatQuery)>>), subquery |-> FlatQuery],
     [query |-> MospQuery("A", <<SubqueryJoin(OuterQuery)>>), subquery |-> OuterQuery]}

\* the joins of a query, those of its subqueries included
RECURSIVE all_joins(_)
all_joins(query) ==
    Range(query.joins)
    \cup UNION {all_joins(join.subquery) : join \in {j \in Range(query.joins) : is_subquery(j)}}

\* what a hint is set for: a join of the query, or its first two tables
JoinArguments(query) ==
    all_joins(query)
    \cup {TableList(<<query.base_table, collect_tables(query.joins[1])[1]>>)}

Receiver(target) == IF target = "self" THEN hinted_query ELSE other_query

Receive(target, hinted) ==
    /\ hinted_query' = IF target = "self" THEN hinted ELSE hinted_query
    /\ other_query' = IF target = "self" THEN other_query ELSE hinted

HintedCall(call, target, join, raised) ==
    [call |-> call, target |-> target, join |-> join, raised |-> raised,
     number |-> hinted_call.number + 1]

ForceJoin ==
    /\ hinted_call.number < MaxHintCalls
    /\ \E target \in {"self", "other"} :
          \E join \in JoinArguments(Receiver(target).query) :
             \/ /\ Receive(target, force_nestloop(Receiver(target), join))
                /\ hinted_call' = HintedCall("force_nestloop", target, join, FALSE)
             \/ /\ Receive(target, force_hashjoin(Receiver(target), join))
                /\ hinted_call' = HintedCall("force_hashjoin", target, join, FALSE)
             \/ /\ Receive(target, force_mergejoin(Receiver(target), join))
                /\ hinted_call' = HintedCall("force_mergejoin", target, join, FALSE)
    /\ UNCHANGED <<qepsVars, hintVars, dbVars>>

SetUpperbound ==
    /\ hinted_call.number < MaxHintCalls
    /\ \E target \in {"self", "other"} :
          \E join \in JoinArguments(Receiver(target).query) :
             /\ Receive(target, set_upperbound(Receiver(target), join, "100"))
             /\ hinted_call' = HintedCall("set_upperbound", target, join, FALSE)
    /\ UNCHANGED <<qepsVars, hintVars, dbVars>>

HintedMergeWith ==
    /\ hinted_call.number < MaxHintCalls
    /\ hinted_query' = hinted_merge_with(hinted_query, other_query)
    /\ hinted_call' = HintedCall("merge_with", "self", Absent, FALSE)
    /\ UNCHANGED <<other_query, qepsVars, hintVars, dbVars>>

\* the comment is generated once, after the hints are set
GenerateSqlComment ==
    /\ hinted_call.number < MaxHintCalls
    /\ \E strip_empty \in BOOLEAN :
          LET r == generate_sqlcomment(hinted_query, strip_empty)
          IN hinted_call' = [HintedCall("generate_sqlcomment", "self", Absent, r.raised)
                                EXCEPT !.number = MaxHintCalls] @@ [text |-> r.text]
    /\ UNCHANGED <<hinted_query, other_query, qepsVars, hintVars, dbVars>>

JoinHintsInit ==
    /\ QepsIdle /\ HintIdle /\ DbIdle
    /\ \E pair \in HintedPairs :
          /\ hinted_query = HintedMospQuery(pair.query)
          /\ other_query = HintedMospQuery(pair.subquery)
    /\ hinted_call = [call |-> "none", number |-> 0]

JoinHintsNext == ForceJoin \/ SetUpperbound \/ HintedMergeWith \/ GenerateSqlComment

SpecJoinHints == JoinHintsInit /\ [][JoinHintsNext]_vars

(***************************************************************************)
(* MysqlInterface.execute_query and the result sets of the regression      *)
(* suite.  A Python value carries its type: a list, a tuple or a value of  *)
(* a column.                                                               *)
(***************************************************************************)
PyList(items) == [type |-> "list", items |-> items]
PyTuple(items) == [type |-> "tuple", items |-> items]
PyInt(value) == [type |-> "int", value |-> value]

\* execute_query, from `if not query_result:` on: one column is unwrapped, then
\* one row is
simplify(fetched) ==
    IF fetched.items = <<>> THEN PyList(<<>>)
    ELSE LET result_structure == fetched.items[1]
             query_result_list ==
                 IF Len(result_structure.items) = 1
                 THEN [i \in 1..Len(fetched.items) |-> fetched.items[i].items[1]]
                 ELSE fetched.items
         IN IF Len(query_result_list) > 1 THEN PyList(query_result_list)
            ELSE query_result_list[1]

\* what a call of the test helper gives: a value, or IndexError
Rebuilt(value) == [raised |-> FALSE, value |-> value]
IndexError == [raised |-> TRUE, value |-> PyList(<<>>)]

\* regression_suite._rebuild_result_set
rebuild_result_set(result_set) ==
    IF result_set.type = "tuple" THEN Rebuilt(PyList(<<result_set>>))
    ELSE IF result_set.type # "list" THEN Rebuilt(PyList(<<PyTuple(<<result_set>>)>>))
    ELSE IF result_set.items = <<>> THEN IndexError
    ELSE IF result_set.items[1].type = "tuple" THEN Rebuilt(result_set)
    ELSE Rebuilt(PyList([i \in 1..Len(result_set.items) |->
                            PyTuple(<<result_set.items[i]>>)]))

\* the result sets the cursor fetches: no row, one or two rows of one or two columns
ResultSets ==
    LET a == PyInt(42)
        b == PyInt(24)
    IN {PyList(<<>>),
        PyList(<<PyTuple(<<a>>)>>),
        PyList(<<PyTuple(<<a>>), PyTuple(<<b>>)>>),
        PyList(<<PyTuple(<<a, b>>)>>),
        PyList(<<PyTuple(<<a, b>>), PyTuple(<<b, a>>)>>),
        PyList(<<PyTuple(<<a, b>>), PyTuple(<<a, b>>)>>)}

SqlTexts == {"SELECT a FROM R", "SELECT a, b FROM R"}

\* cache_enabled of execute_query: None, True or False
CacheArguments == {"None", "True", "False"}

\* cache_enabled or (cache_enabled is None and self._cache_enabled)
caching(self, cache_enabled) ==
    cache_enabled = "True" \/ (cache_enabled = "None" /\ self.cache_enabled)

\* MysqlInterface.execute_query; fetched is what the cursor answers if it is asked
execute_query(self, query, cache_enabled, fetched) ==
    LET cached == caching(self, cache_enabled) /\ HasKey(self.query_cache, query)
        query_result_list == IF cached THEN ValueOf(self.query_cache, query) ELSE fetched
    IN [self |-> IF ~cached /\ caching(self, cache_enabled)
                 THEN [self EXCEPT !.query_cache = set_item(@, query, fetched)]
                 ELSE self,
        query_result |-> query_result_list,
        returned |-> simplify(query_result_list)]

ExecuteQuery ==
    /\ query_result.call # "execute_query"
    /\ \E query \in SqlTexts, cache_enabled \in CacheArguments, fetched \in ResultSets :
          LET r == execute_query(mysql, query, cache_enabled, fetched)
          IN /\ mysql' = r.self
             /\ query_result' = [call |-> "execute_query", query |-> query,
                                 query_result |-> r.query_result, returned |-> r.returned]
    /\ UNCHANGED <<str_methods, qepsVars, hintVars, mospVars>>

\* the regression suite: the result of the last query is rebuilt
RebuildResultSet ==
    /\ query_result.call = "execute_query"
    /\ query_result' = [call |-> "_rebuild_result_set", query |-> query_result.query,
                        query_result |-> query_result.query_result,
                        returned |-> query_result.returned,
                        rebuilt |-> rebuild_result_set(query_result.returned)]
    /\ UNCHANGED <<mysql, str_methods, qepsVars, hintVars, mospVars>>

\* ---- MysqlHintService.format_query ----
\* a __str__ implementation is identified by the number of modify_str_methods
\* closures around the implementation of the class body: 0 is the class body's own
MaxPatches == 3

StaticValue(value) == [node |-> "StaticValueExpression", value |-> value]

Cast(expression) == [node |-> "CastExpression", expression |-> expression]

ExplainClause(analyze, target_format) ==
    [node |-> "Explain", analyze |-> analyze, target_format |-> target_format]

\* clauses.Explain.__str__ of the class body
explain_str(self) ==
    IF self.analyze /\ self.target_format # None
    THEN <<"EXPLAIN", "(ANALYZE, FORMAT", self.target_format, ")">>
    ELSE IF self.analyze THEN <<"EXPLAIN", "ANALYZE">>
    ELSE IF self.target_format # None THEN <<"EXPLAIN", "(FORMAT", self.target_format, ")">>
    ELSE <<"EXPLAIN">>

\* the replacement modify_str_methods installs for Explain
modified_explain_str(exp_method) ==
    IF exp_method.analyze /\ exp_method.target_format # None
    THEN <<"EXPLAIN", "FORMAT =", exp_method.target_format>>
    ELSE IF exp_method.analyze THEN <<"EXPLAIN", "ANALYZE">>
    ELSE IF exp_method.target_format # None
         THEN <<"EXPLAIN", "FORMAT =", exp_method.target_format>>
    ELSE <<"EXPLAIN">>

\* the __str__ of the expression classes as the class bodies define them
RECURSIVE original_str(_)
original_str(expression) ==
    IF expression.node = "CastExpression"
    THEN <<"CAST(">> \o original_str(expression.expression) \o <<")">>
    ELSE IF expression.value.type = "str" THEN <<"'", expression.value.value, "'">>
    ELSE <<expression.value.value>>

\* the replacement for StaticValueExpression: string values in double quotes,
\* every other value by the implementation saved at patch time
double_quotes(expression) ==
    IF expression.value.type = "str" THEN <<"\"", expression.value.value, "\"">>
    ELSE original_str(expression)

SystemExit == [raised |-> TRUE, text |-> <<>>]

StrOf(text) == [raised |-> FALSE, text |-> text]

\* str(expression) under the implementations in effect; the replacement for
\* CastExpression leaves through sys.exit
str_expression(methods, expression) ==
    IF expression.node = "CastExpression"
    THEN IF methods.CastExpression > 0 THEN SystemExit
         ELSE StrOf(original_str(expression))
    ELSE IF methods.StaticValueExpression > 0 THEN StrOf(double_quotes(expression))
    ELSE StrOf(original_str(expression))

str_explain(methods, explain) ==
    IF methods.Explain > 0 THEN modified_explain_str(explain) ELSE explain_str(explain)

\* modify_str_methods(): the implementations in effect are saved and a new closure
\* is installed on each of the three classes
modify_str_methods(methods) ==
    [saved |-> methods,
     installed |-> [StaticValueExpression |-> methods.StaticValueExpression + 1,
                    CastExpression |-> methods.CastExpression + 1,
                    Explain |-> methods.Explain + 1]]

\* formatter.format_quick: the text of the query from the str() of its parts
format_quick(methods, query) ==
    LET body == str_expression(methods, query.expression)
        prefix == IF query.explain = Absent THEN <<>> ELSE str_explain(methods, query.explain)
    IN IF body.raised THEN SystemExit
       ELSE StrOf(prefix \o <<"SELECT">> \o body.text)

\* MysqlHintService.format_query: the restoring assignments follow the call of
\* format_quick and run when it returns
format_query(methods, query) ==
    LET patch == modify_str_methods(methods)
        formatted == format_quick(patch.installed, query)
    IN [methods |-> IF formatted.raised THEN patch.installed ELSE patch.saved,
        raised |-> formatted.raised,
        text |-> formatted.text]

\* a static value of the query text: its Python type and its digits or characters
Literal(type, value) == [type |-> type, value |-> value]

FormatExpressions ==
    {StaticValue(Literal("int", "1")), StaticValue(Literal("str", "a")),
     Cast(StaticValue(Literal("int", "1")))}

FormatExplains ==
    {Absent} \cup {ExplainClause(analyze, target_format) :
                     analyze \in BOOLEAN, target_format \in {None, "JSON"}}

FormatQuery ==
    /\ str_methods.CastExpression < MaxPatches
    /\ \E expression \in FormatExpressions, explain \in FormatExplains :
          LET query == [explain |-> explain, expression |-> expression]
              r == format_query(str_methods, query)
          IN /\ str_methods' = r.methods
             /\ query_result' = [call |-> "format_query", query |-> query,
                                 raised |-> r.raised, text |-> r.text,
                                 before |-> str_methods]
    /\ UNCHANGED <<mysql, qepsVars, hintVars, mospVars>>

DatabaseInit ==
    /\ QepsIdle /\ HintIdle /\ MospIdle
    /\ \E cache_enabled \in BOOLEAN : mysql = [cache_enabled |-> cache_enabled,
                                               query_cache |-> <<>>]
    /\ query_result = [call |-> "none"]
    /\ str_methods = [StaticValueExpression |-> 0, CastExpression |-> 0, Explain |-> 0]

DatabaseNext == ExecuteQuery \/ RebuildResultSet \/ FormatQuery

SpecDatabase == DatabaseInit /\ [][DatabaseNext]_vars

(***************************************************************************)
(* Properties of HintParts.merge_with.                                     *)
(***************************************************************************)
\* the positions of other_list whose element the receiver does not hold
KeptPositions(self_list, other_list) ==
    {i \in 1..Len(other_list) : \A k \in 1..Len(self_list) : self_list[k] # other_list[i]}

\* the j-th smallest position of a set of positions
NthPosition(positions, j) ==
    CHOOSE p \in positions : Cardinality({i \in positions : i <= p}) = j

ReceiverThenNew(self_list, other_list, merged) ==
    LET kept == KeptPositions(self_list, other_list)
    IN /\ Len(merged) = Len(self_list) + Cardinality(kept)
       /\ \A i \in 1..Len(self_list) : merged[i] = self_list[i]
       /\ \A j \in 1..Cardinality(kept) :
             merged[Len(self_list) + j] = other_list[NthPosition(kept, j)]

HasRepeat(list) == \E i, j \in 1..Len(list) : i < j /\ list[i] = list[j]

Content(parts) == [settings |-> Range(parts.settings), hints |-> Range(parts.hints)]

\* C7: merge_with returns the receiver's settings (and, independently, hints) in
\* their order, followed by exactly those elements of other, in other's order and
\* as often as other holds them, that the receiver does not hold; the receiver
\* and other are what they were before the call.
MergeWithKeepsReceiverThenNew ==
    hint_result.call = "merge_with" =>
        /\ ReceiverThenNew(hint_result.receiver_before.settings,
                           hint_result.other_before.settings, hint_result.merged.settings)
        /\ ReceiverThenNew(hint_result.receiver_before.hints,
                           hint_result.other_before.hints, hint_result.merged.hints)
        /\ hint_result.receiver = hint_result.receiver_before
        /\ hint_result.other = hint_result.other_before

\* a merge that kept the receiver, dropped an element of other the receiver holds
\* and appended one it does not hold
MergeWithKeepsReceiverThenNewWitness ==
    /\ hint_result.call = "merge_with"
    /\ hint_result.receiver_before.hints # <<>>
    /\ \E i, j \in 1..Len(hint_result.other_before.hints) :
          /\ i < j
          /\ hint_result.other_before.hints[i] \in Range(hint_result.receiver_before.hints)
          /\ hint_result.other_before.hints[j] \notin Range(hint_result.receiver_before.hints)
          /\ hint_parts.hints = Append(hint_result.receiver_before.hints,
                                       hint_result.other_before.hints[j])

\* C8: merging any HintParts, also one that holds a string more than once, with
\* itself returns a HintParts equal to it.
MergeIdempotence ==
    \A parts \in MergeInputs \cup {hint_parts} : merge_with(parts, parts).merged = parts

\* a HintParts with a repeated string was merged with itself
MergeIdempotenceWitness ==
    /\ hint_result.call = "merge_with"
    /\ hint_result.other_before = hint_result.receiver_before
    /\ HasRepeat(hint_result.receiver_before.hints)
    /\ HasRepeat(hint_result.receiver_before.settings)
    /\ hint_parts = hint_result.receiver_before

\* C9: for the receiver a and the argument b of a merge and every HintParts c,
\* (a.merge_with(b)).merge_with(c) and a.merge_with(b.merge_with(c)) hold the
\* same set of settings and the same set of hints.
MergeAssociativityOfContent ==
    hint_result.call = "merge_with" =>
        \A c \in MergeInputs :
            Content(merge_with(hint_result.merged, c).merged)
            = Content(merge_with(hint_result.receiver_before,
                                 merge_with(hint_result.other_before, c).merged).merged)

\* a and b both hold hints, b holds one a lacks and one a holds, and some c holds
\* a hint that neither holds
MergeAssociativityOfContentWitness ==
    /\ hint_result.call = "merge_with"
    /\ hint_result.receiver_before.hints # <<>>
    /\ Len(hint_result.other_before.hints) = MaxLen
    /\ ~ (Range(hint_result.other_before.hints) \subseteq Range(hint_result.receiver_before.hints))
    /\ Range(hint_result.receiver_before.hints) \subseteq Range(hint_result.other_before.hints)
    /\ hint_result.receiver_before.settings = <<>>
    /\ hint_result.other_before.settings # <<>>

NoOperators(operators) ==
    \/ operators = Absent
    \/ /\ operators.global_settings = <<>>
       /\ operators.scan_operators = <<>>
       /\ operators.join_operators = <<>>

NoPlanParameters(plan_parameters) ==
    \/ plan_parameters = Absent
    \/ plan_parameters.index_hints = <<>> /\ plan_parameters.join_order_hints = <<>>

NoJoinTree(join_order) == join_order = Absent \/ join_order.root = Absent

\* C11: generate_hints with a join order, an operator assignment and a plan
\* parameterization that are each absent or empty raises nothing, builds no hint
\* block and returns the query it was given.
SkippedStagesReturnTheQuery ==
    (/\ hint_result.call = "generate_hints"
     /\ NoJoinTree(hint_result.join_order)
     /\ NoOperators(hint_result.physical_operators)
     /\ NoPlanParameters(hint_result.plan_parameters)) =>
        /\ ~ hint_result.raised
        /\ hint_result.hint_block = Absent
        /\ hint_result.returned = hint_result.query

\* all three arguments were passed and empty, for a query with a hint clause
SkippedStagesReturnTheQueryWitness ==
    /\ hint_result.call = "generate_hints"
    /\ hint_result.join_order # Absent /\ NoJoinTree(hint_result.join_order)
    /\ hint_result.physical_operators # Absent /\ NoOperators(hint_result.physical_operators)
    /\ hint_result.plan_parameters # Absent /\ NoPlanParameters(hint_result.plan_parameters)
    /\ hint_result.query.hints # Absent
    /\ hint_result.returned = hint_result.query

\* part occurs in text
ContainsText(text, part) ==
    \E i \in 0..(Len(text) - Len(part)) : SubSeq(text, i + 1, i + Len(part)) = part

\* the bracketing of a join of two base tables: the child with the smaller upper
\* bound is the inner one, written second
RenderedJoinOrder(node) ==
    LET inner == IF node.left_child.upper_bound < node.right_child.upper_bound
                 THEN node.left_child ELSE node.right_child
        outer == IF inner = node.left_child THEN node.right_child ELSE node.left_child
    IN <<"(", identifier(outer.table), " ", identifier(inner.table), ")">>

\* C12: when generate_hints is given a join tree of at least two tables, the hints
\* hold exactly one directive with the nested (outer inner) bracketing of the
\* tree; R with bound 100 and S with bound 10,000 render (S R).
JoinOrderDirectiveIsRendered ==
    (/\ hint_result.call = "generate_hints"
     /\ ~ hint_result.raised
     /\ ~ NoJoinTree(hint_result.join_order)) =>
        /\ RenderedJoinOrder(hint_result.join_order.root) = <<"(", "S", " ", "R", ")">>
        /\ Cardinality({i \in 1..Len(hint_parts.hints) :
                           ContainsText(hint_parts.hints[i],
                                        RenderedJoinOrder(hint_result.join_order.root))}) = 1

Unsupported(operators) ==
    \/ \E i \in 1..Len(operators.global_settings) :
          operators.global_settings[i].operator \notin DOMAIN MysqlOptimizerSettings
    \/ \E i \in 1..Len(operators.scan_operators) :
          operators.scan_operators[i].operator \notin DOMAIN MysqlOptimizerHints
    \/ \E i \in 1..Len(operators.join_operators) :
          operators.join_operators[i].operator \notin DOMAIN MysqlOptimizerHints

\* C13: when the operator assignment holds a global setting, a scan operator or a
\* join operator that the lookup tables lack, generate_hints raises and returns no
\* query.
UnsupportedDirectiveIsFatal ==
    (/\ hint_result.call = "generate_hints"
     /\ hint_result.physical_operators # Absent
     /\ Unsupported(hint_result.physical_operators)) =>
        /\ hint_result.raised
        /\ hint_result.returned = Absent

\* the only unsupported entry is the second of two join operators
UnsupportedDirectiveIsFatalWitness ==
    /\ hint_result.call = "generate_hints"
    /\ hint_result.physical_operators # Absent
    /\ hint_result.physical_operators.global_settings # <<>>
    /\ ~ Unsupported([hint_result.physical_operators EXCEPT !.join_operators = <<>>])
    /\ Len(hint_result.physical_operators.join_operators) = 2
    /\ hint_result.physical_operators.join_operators[1].operator = "HashJoin"
    /\ hint_result.physical_operators.join_operators[2].operator = "NestedLoopJoin"
    /\ hint_result.raised

\* C14: supports_hint returns true exactly for the join operators, scan operators
\* and plan hint kinds of the whitelist, false without raising for anything else,
\* and leaves the HintParts as they are.
SupportsHintIsWhitelistMembership ==
    hint_result.call = "supports_hint" =>
        /\ ~ hint_result.raised
        /\ hint_result.returned =
              (hint_result.hint \in {"BlockNestedLoopJoin", "IndexMergeJoin", "MergeJoin",
                                     "IndexJoin", "HashJoin", "IndexScan", "JoinOrderHint"})
        /\ hint_parts = empty

\* an operator outside the whitelist was asked about and the answer was false
SupportsHintIsWhitelistMembershipWitness ==
    /\ hint_result.call = "supports_hint"
    /\ hint_result.hint = "UnknownOperator"
    /\ hint_result.returned = FALSE
    /\ ~ hint_result.raised

IsDirectiveOf(hint, operator) ==
    /\ Len(hint) > 3
    /\ hint[1] = MysqlOptimizerHints[operator]
    /\ hint[2] = "(" /\ hint[Len(hint)] = ")"

\* C20 as stated: the hints of the operator stage are one directive per scan
\* operator assignment followed by one directive per join operator assignment and
\* nothing else, so there are as many hints as scan and join assignments.
OperatorHintsAreDirectivesOnly ==
    (/\ hint_result.call = "generate_hints"
     /\ ~ hint_result.raised
     /\ hint_result.physical_operators # Absent) =>
        LET scans == hint_result.physical_operators.scan_operators
            joins == hint_result.physical_operators.join_operators
            hints == hint_result.operator_hints.hints
        IN /\ Len(hints) = Len(scans) + Len(joins)
           /\ \A i \in 1..Len(hints) :
                 IF i <= Len(scans) THEN IsDirectiveOf(hints[i], scans[i].operator)
                 ELSE IsDirectiveOf(hints[i], joins[i - Len(scans)].operator)

\* C20 amended: the hints of the operator stage are one directive per scan
\* operator assignment, then one empty string if and only if there is a scan
\* operator assignment, then one directive per join operator assignment.
OperatorHintsAreDirectivesAndSeparator ==
    (/\ hint_result.call = "generate_hints"
     /\ ~ hint_result.raised
     /\ hint_result.physical_operators # Absent) =>
        LET scans == hint_result.physical_operators.scan_operators
            joins == hint_result.physical_operators.join_operators
            hints == hint_result.operator_hints.hints
            separators == IF Len(scans) > 0 THEN 1 ELSE 0
        IN /\ Len(hints) = Len(scans) + separators + Len(joins)
           /\ \A i \in 1..Len(hints) :
                 IF i <= Len(scans) THEN IsDirectiveOf(hints[i], scans[i].operator)
                 ELSE IF i <= Len(scans) + separators THEN hints[i] = <<>>
                 ELSE IsDirectiveOf(hints[i], joins[i - Len(scans) - separators].operator)

\* two scan operators and two join operators compiled to five hints
OperatorHintsAreDirectivesAndSeparatorWitness ==
    /\ hint_result.call = "generate_hints"
    /\ ~ hint_result.raised
    /\ hint_result.physical_operators # Absent
    /\ Len(hint_result.physical_operators.scan_operators) = 2
    /\ Len(hint_result.physical_operators.join_operators) = 2
    /\ Len(hint_result.operator_hints.hints) = 5
    /\ hint_result.operator_hints.hints[3] = <<>>

(***************************************************************************)
(* Properties of HintedMospQuery.set_pg_param.                             *)
(***************************************************************************)
\* the parameters that are set and their values, whatever their order
Settings(dict) == {<<dict[i].key, dict[i].value>> : i \in 1..Len(dict)}

\* after is before with the parameter name set to value and nothing else changed
OnlySet(before, after, name, value) ==
    /\ <<name, value>> \in Settings(after)
    /\ \A item \in Settings(after) : item[1] = name => item[2] = value
    /\ {item \in Settings(after) : item[1] # name}
       = {item \in Settings(before) : item[1] # name}

\* C16: set_pg_param(name, value) sets that parameter and leaves the others as
\* they were; set_pg_param(name=value) leaves the same parameters as
\* set_pg_param(name, value) would; set_pg_param(dict) leaves exactly the
\* parameters of the dict.
SetPgParamModes ==
    hinted_call.call = "set_pg_param" =>
        LET before == hinted_call.before.pg_parameters
            after == hinted_query.pg_parameters
        IN /\ hinted_call.mode = "positional" =>
                 OnlySet(before, after, hinted_call.parameter.name, hinted_call.value)
           /\ (hinted_call.mode = "keyword" /\ Len(hinted_call.kwargs) = 1) =>
                 /\ OnlySet(before, after, hinted_call.kwargs[1].key,
                            hinted_call.kwargs[1].value)
                 /\ after = set_pg_param(hinted_call.before, Name(hinted_call.kwargs[1].key),
                                         hinted_call.kwargs[1].value, <<>>).pg_parameters
           /\ hinted_call.mode = "keyword" =>
                 /\ Settings(hinted_call.kwargs) \subseteq Settings(after)
                 /\ \A item \in Settings(after) :
                        \/ item \in Settings(hinted_call.kwargs)
                        \/ /\ item \in Settings(before)
                           /\ ~HasKey(hinted_call.kwargs, item[1])
                 /\ \A item \in Settings(before) :
                        ~HasKey(hinted_call.kwargs, item[1]) => item \in Settings(after)
           /\ hinted_call.mode = "dict" =>
                 Settings(after) = Settings(hinted_call.parameter.dict)

\* a dict replaced two parameters, one of which it does not name
SetPgParamModesWitness ==
    /\ hinted_call.call = "set_pg_param"
    /\ hinted_call.mode = "dict"
    /\ Len(hinted_call.before.pg_parameters) = 2
    /\ Len(hinted_query.pg_parameters) = 1
    /\ \E i \in 1..2 :
          /\ hinted_call.before.pg_parameters[i].key = hinted_query.pg_parameters[1].key
          /\ hinted_call.before.pg_parameters[i].value # hinted_query.pg_parameters[1].value

(***************************************************************************)
(* Properties of the walk over bushy join orders.                          *)
(***************************************************************************)
RECURSIVE Subtrees(_)
Subtrees(node) ==
    IF node.kind = "base" THEN {node}
    ELSE {node} \cup Subtrees(node.left_child) \cup Subtrees(node.right_child)

\* C17: for every join tree a recommendation was asked for, and every subtree of
\* it, the linearization of a base table is empty, the linearization of a join is
\* its right spine from the lowest join up to the join itself, no join of a left
\* subtree is in it, and A JOIN (B JOIN C) gives [B JOIN C, A JOIN (B JOIN C)].
LinearizationOrder ==
    result.call = "recommend_operators" =>
        \A n \in Subtrees(result.join_order.root) :
            LET seq == iterate_join_tree(n)
            IN /\ n.kind = "base" => seq = <<>>
               /\ n.kind = "join" =>
                     /\ Len(seq) >= 1
                     /\ seq[Len(seq)] = n
                     /\ seq[1].right_child.kind = "base"
                     /\ \A i \in 2..Len(seq) : seq[i].right_child = seq[i - 1]
                     /\ \A i \in 1..Len(seq) :
                           \A m \in Subtrees(seq[i].left_child) : m \notin Range(seq)
               /\ ( /\ n.kind = "join"
                    /\ n.left_child.kind = "base"
                    /\ n.right_child.kind = "join"
                    /\ n.right_child.left_child.kind = "base"
                    /\ n.right_child.right_child.kind = "base" )
                  => seq = <<n.right_child, n>>

\* a recommendation for U JOIN ((S JOIN T) JOIN R): a right spine of two joins, the
\* lower one with a join as its left subtree
LinearizationOrderWitness ==
    /\ result.call = "recommend_operators"
    /\ result.join_order.root.kind = "join"
    /\ result.join_order.root.right_child.kind = "join"
    /\ result.join_order.root.right_child.left_child.kind = "join"

\* the key of the child a join of a plan leads to
PlanKeyOf(filter_aware, query, join) ==
    LET outer == outer_or_first(join)
    IN IF outer.is_scan
       THEN QepsIdentifier({join.table}, IF filter_aware THEN query[join.table] ELSE None)
       ELSE QepsIdentifier(plan_tables(outer), None)

\* the node reached from self by the children of the first n joins
BelowJoins(self, filter_aware, query, joins, n) ==
    self \o [i \in 1..n |-> KeyOf(filter_aware, query, joins[i])]

BelowPlanJoins(self, filter_aware, query, joins, n) ==
    self \o [i \in 1..n |-> PlanKeyOf(filter_aware, query, joins[i])]

\* the operator costs of a node, none if the node does not exist
CostsAt(q, p) == IF p \in DOMAIN q THEN q[p].operator_costs ELSE <<>>

\* the nodes whose operator costs a call changed
Changed(before, after) == {p \in DOMAIN after : CostsAt(before, p) # after[p].operator_costs}

\* what one update with the cost of a plan's join leaves at node p
UpdatedBy(before, p, join) ==
    update_costs([filter_aware |-> before[<<>>].filter_aware, gamma |-> before[<<>>].gamma,
                  operator_costs |-> CostsAt(before, p)],
                 join.physical_operator, join.cost.value).operator_costs

RecommendationAt(q, p) ==
    IF p \in DOMAIN q THEN current_recommendation(q[p]) ELSE None

\* C18, feedback: when the outer child of the first join of a plan is a join, the
\* costs of that subtree's joins are recorded below the subquery root of the child
\* keyed by the subtree's tables, the costs of the remaining outer joins below that
\* child itself, and no other operator costs change.
SubqueryScopingOfCosts ==
    ( /\ result.call = "integrate_costs"
      /\ ~result.raised
      /\ outer_or_first(Head(iterate_query_plan(result.query_plan))).is_join ) =>
        LET fa == qeps[<<>>].filter_aware
            seq == iterate_query_plan(result.query_plan)
            sub == outer_or_first(Head(seq))
            child == <<QepsIdentifier(plan_tables(sub), None)>>
            inside == Append(child, SubqueryRootKey)
            inner == iterate_query_plan(sub)
            rest == Tail(seq)
            InnerNode(j) == BelowPlanJoins(inside, fa, result.query, inner, j)
            RestNode(i) == BelowPlanJoins(child, fa, result.query, rest, i)
        IN /\ Changed(result.before, qeps)
              = {InnerNode(j) : j \in 1..Len(inner)} \cup {RestNode(i) : i \in 1..Len(rest)}
           /\ \A j \in 1..Len(inner) :
                 qeps[InnerNode(j)].operator_costs
                 = UpdatedBy(result.before, InnerNode(j), inner[j])
           /\ \A i \in 1..Len(rest) :
                 qeps[RestNode(i)].operator_costs
                 = UpdatedBy(result.before, RestNode(i), rest[i])
           /\ \A p \in DOMAIN qeps :
                 ~IsPrefix(inside, p) /\ p \notin {RestNode(i) : i \in 1..Len(rest)}
                    => CostsAt(result.before, p) = qeps[p].operator_costs

\* C18, recommendation: when the left child of the first join is a join, the walk
\* visits the child keyed by the subtree's tables, the children of the subtree's
\* joins below its subquery root and the children of the remaining outer joins
\* below the child itself; each join gets the recommendation of the node it is
\* processed at.
SubqueryScopingOfRecommendation ==
    ( /\ result.call = "recommend_operators"
      /\ Head(iterate_join_tree(result.join_order.root)).left_child.kind = "join" ) =>
        LET fa == qeps[<<>>].filter_aware
            seq == iterate_join_tree(result.join_order.root)
            sub == Head(seq).left_child
            child == <<QepsIdentifier(tables(sub), None)>>
            inside == Append(child, SubqueryRootKey)
            inner == iterate_join_tree(sub)
            rest == Tail(seq)
            InnerNode(j) == BelowJoins(inside, fa, result.query, inner, j)
            RestNode(i) == BelowJoins(child, fa, result.query, rest, i)
            Recommended(join, node) ==
                JoinOperatorOf(result.assignment, tables(join))
                = RecommendationAt(result.before, node)
        IN /\ DOMAIN qeps
              = DOMAIN result.before
                \cup {InnerNode(j) : j \in 0..Len(inner)} \cup {RestNode(i) : i \in 0..Len(rest)}
           /\ Recommended(Head(seq), <<>>)
           /\ \A j \in 1..Len(inner) : Recommended(inner[j], InnerNode(j - 1))
           /\ \A i \in 1..Len(rest) : Recommended(rest[i], RestNode(i - 1))
           /\ Changed(result.before, qeps) = {}

\* C18: subquery scoping of recommend_operators and integrate_costs
SubqueryScoping == SubqueryScopingOfCosts /\ SubqueryScopingOfRecommendation

\* the plan U JOIN ((S JOIN T) JOIN R) was integrated a second time: the cost of
\* S JOIN T went below the subquery root, the cost of the top join below the child
SubqueryScopingWitness ==
    /\ result.call = "integrate_costs"
    /\ ~result.raised
    /\ Len(iterate_query_plan(result.query_plan)) = 2
    /\ LET child == <<QepsIdentifier({"S", "T"}, None)>>
           inside == Append(child, SubqueryRootKey)
           changed == Changed(result.before, qeps)
       IN /\ \E p \in changed : IsPrefix(inside, p) /\ CostsAt(result.before, p) # <<>>
          /\ \E p \in changed : ~IsPrefix(inside, p) /\ CostsAt(result.before, p) # <<>>

(***************************************************************************)
(* Filter-aware keying.                                                    *)
(***************************************************************************)
\* a plan that joins two base tables
IsBaseJoin(query_plan) ==
    /\ query_plan.is_join
    /\ \A i \in 1..Len(query_plan.children) : query_plan.children[i].is_scan

\* the operator costs one or two updates leave at a node that had none
CostsAfter(joins) ==
    LET fresh == QepsNode(qeps[<<>>].filter_aware, qeps[<<>>].gamma)
        first == update_costs(fresh, joins[1].physical_operator, joins[1].cost.value)
    IN IF Len(joins) = 1 THEN first.operator_costs
       ELSE update_costs(first, joins[2].physical_operator,
                         joins[2].cost.value).operator_costs

\* C19: without filter awareness every key of a node carries no filter, and the
\* costs of two queries that differ in the filter on the joined base table are
\* accumulated in the one node keyed by the table; with filter awareness the node
\* an integration changes is keyed by the table and the query's filter on it, and
\* the costs of the two queries are in two nodes; two keys of one node are the
\* same exactly if their tables and their filters are.
FilterAwareKeying ==
    LET fa == qeps[<<>>].filter_aware
        done == result.integrated
    IN /\ ~fa => \A p \in DOMAIN qeps : \A i \in 1..Len(p) :
                    p[i] # SubqueryRootKey => p[i].filter_predicate = None
       /\ \A p \in DOMAIN qeps : \A k1, k2 \in ChildKeys(qeps, p) :
             (Append(p, k1) = Append(p, k2))
             <=> (k1.tables = k2.tables /\ k1.filter_predicate = k2.filter_predicate)
       /\ ( /\ result.call = "integrate_costs"
            /\ ~result.raised
            /\ IsBaseJoin(result.query_plan) ) =>
             LET table == result.query_plan.table
                 key == QepsIdentifier({table},
                                       IF fa THEN result.query[table] ELSE None)
             IN /\ Changed(result.before, qeps) = {<<key>>}
                /\ qeps[<<key>>].operator_costs
                   = UpdatedBy(result.before, <<key>>, result.query_plan)
       /\ ( /\ Len(done) = 2
            /\ IsBaseJoin(done[1].query_plan)
            /\ IsBaseJoin(done[2].query_plan)
            /\ done[1].query_plan.table = done[2].query_plan.table
            /\ done[1].query[done[1].query_plan.table]
               # done[2].query[done[2].query_plan.table] ) =>
             LET table == done[1].query_plan.table
                 Node(i) == <<QepsIdentifier({table},
                                             IF fa THEN done[i].query[table] ELSE None)>>
             IN IF fa
                THEN /\ Node(1) # Node(2)
                     /\ CostsAt(qeps, Node(1)) = CostsAfter(<<done[1].query_plan>>)
                     /\ CostsAt(qeps, Node(2)) = CostsAfter(<<done[2].query_plan>>)
                ELSE /\ Node(1) = Node(2)
                     /\ CostsAt(qeps, Node(1))
                        = CostsAfter(<<done[1].query_plan, done[2].query_plan>>)

\* a filter-aware synopsis has integrated S JOIN T for the query without filter and
\* for the query with a filter on S: the costs are in two nodes for S
FilterAwareKeyingWitness ==
    /\ qeps[<<>>].filter_aware
    /\ Len(result.integrated) = 2
    /\ IsBaseJoin(result.integrated[1].query_plan)
    /\ IsBaseJoin(result.integrated[2].query_plan)
    /\ result.integrated[1].query["S"] # result.integrated[2].query["S"]
    /\ CostsAt(qeps, <<QepsIdentifier({"S"}, None)>>) # <<>>
    /\ CostsAt(qeps, <<QepsIdentifier({"S"}, "S.a = 1")>>) # <<>>

(***************************************************************************)
(* Properties of the plan-parameter stage.                                 *)
(***************************************************************************)
\* the names of a list, separated by ", "
Listed(names) == JoinTexts(", ", [k \in 1..Len(names) |-> <<names[k]>>])

\* the forced-index directive of an entry of index_hints
ForcedIndexDirective(entry) ==
    IF entry.table # Absent
    THEN <<"FORCE_INDEX(", identifier(entry.table), " ">> \o Listed(entry.index_list) \o <<")">>
    ELSE <<"FORCE_INDEX(">> \o Listed(entry.index_list) \o <<")">>

\* the ordering directive of a tuple of tables
OrderingDirective(joined) ==
    <<"JOIN_ORDER(">>
    \o Listed([k \in 1..Len(joined) |-> identifier(joined[k])]) \o <<")">>

OrderingDirectives(join_order_hints) ==
    [i \in 1..Len(join_order_hints) |-> OrderingDirective(join_order_hints[i])]

PlanStageRan ==
    /\ hint_result.call = "generate_hints"
    /\ ~hint_result.raised
    /\ hint_result.plan_parameters # Absent

\* C21 as stated: the stage emits one forced-index directive for every entry of
\* index_hints, then one ordering directive for every entry of join_order_hints,
\* and no settings.
PlanStageOneDirectivePerEntry ==
    PlanStageRan =>
        LET index_hints == hint_result.plan_parameters.index_hints
        IN /\ hint_result.plan_hints.settings = <<>>
           /\ hint_result.plan_hints.hints
              = [i \in 1..Len(index_hints) |-> ForcedIndexDirective(index_hints[i])]
                \o OrderingDirectives(hint_result.plan_parameters.join_order_hints)

\* C21: the stage emits one forced-index directive for every entry of index_hints
\* whose index list is not empty, and none for an entry whose index list is empty,
\* then one ordering directive for every entry of join_order_hints, and no settings.
PlanStageOneDirectivePerNonEmptyEntry ==
    PlanStageRan =>
        LET listed == SelectSeq(hint_result.plan_parameters.index_hints,
                                LAMBDA entry : entry.index_list # <<>>)
        IN /\ hint_result.plan_hints.settings = <<>>
           /\ hint_result.plan_hints.hints
              = [i \in 1..Len(listed) |-> ForcedIndexDirective(listed[i])]
                \o OrderingDirectives(hint_result.plan_parameters.join_order_hints)

\* two index hints, one of them with no table, and two join order hints gave four
\* directives
PlanStageWitness ==
    /\ PlanStageRan
    /\ Len(hint_result.plan_parameters.index_hints) = 2
    /\ \E i \in 1..2 : hint_result.plan_parameters.index_hints[i].table = Absent
    /\ Len(hint_result.plan_parameters.join_order_hints) = 2
    /\ Len(hint_result.plan_hints.hints) = 4

ResultSetRoundTrip ==
    query_result.call = "_rebuild_result_set" =>
        /\ ~query_result.rebuilt.raised
        /\ query_result.rebuilt.value = query_result.query_result

\* the round trip of every result set that has a row
NonEmptyResultSetRoundTrip ==
    (query_result.call = "_rebuild_result_set" /\ query_result.query_result.items # <<>>) =>
        /\ ~query_result.rebuilt.raised
        /\ query_result.rebuilt.value = query_result.query_result

(***************************************************************************)
(* The learning loop.                                                      *)
(***************************************************************************)
\* every join of the linearization has a base table as its left child
BaseTablesOnTheLeft(join_order) ==
    \A i \in 1..Len(join_order) : join_order[i].left_child.kind = "base"

\* C24: after recommend_operators on a join order whose joins all have a base
\* table on the left, the k-th join whose costs were recorded for at least two
\* operators (at the node integrate_costs records the k-th join of such a plan at)
\* is assigned the operator of minimum cost among them.
LearningLoopAlignment ==
    LET seq == iterate_join_tree(result.join_order.root)
    IN (result.call = "recommend_operators" /\ BaseTablesOnTheLeft(seq)) =>
          \A k \in 1..Len(seq) :
              LET node == BelowJoins(<<>>, qeps[<<>>].filter_aware, result.query, seq, k)
              IN (node \in DOMAIN qeps /\ Len(qeps[node].operator_costs) > 1) =>
                    IsFirstMinimum(qeps[node].operator_costs,
                                   JoinOperatorOf(result.assignment, tables(seq[k])))

(***************************************************************************)
(* Frame of recommend_operators.                                           *)
(***************************************************************************)
\* C25: a recommend_operators call keeps every node with the operator costs it
\* had, the nodes it creates have no operator costs, and every
\* recommend_operators call gives after it what it would have given before it.
RecommendationIsReadOnly ==
    result.call = "recommend_operators" =>
        /\ DOMAIN result.before \subseteq DOMAIN qeps
        /\ \A p \in DOMAIN qeps : qeps[p].operator_costs = CostsAt(result.before, p)
        /\ \A query \in BushyQueries, join_order \in BushyJoinTrees :
              synopsis_recommend_operators(qeps, query, join_order).assignment
              = synopsis_recommend_operators(result.before, query, join_order).assignment

\* a call created nodes in a synopsis that held the costs of two operators below a
\* subquery root
RecommendationIsReadOnlyWitness ==
    /\ result.call = "recommend_operators"
    /\ DOMAIN qeps # DOMAIN result.before
    /\ \E p \in DOMAIN result.before :
          /\ Len(result.before[p].operator_costs) = 2
          /\ \E i \in 1..Len(p) : p[i] = SubqueryRootKey

(***************************************************************************)
(* Failure of integrate_costs.                                             *)
(***************************************************************************)
\* C26: an integrate_costs call that raises leaves every node with the operator
\* costs it had before the call.
FailedIntegrationChangesNoCosts ==
    [][(result'.call = "integrate_costs" /\ result'.raised) =>
          \A p \in DOMAIN qeps' : qeps'[p].operator_costs = CostsAt(qeps, p)]_vars

(***************************************************************************)
(* Learned history.                                                        *)
(***************************************************************************)
\* C27: no call removes a node of the synopsis, a child or a subquery root, or an
\* operator from the operator costs of a node; a subquery root that holds costs or
\* children keeps them.
LearnedHistoryIsKept ==
    [][\A p \in DOMAIN qeps :
          /\ p \in DOMAIN qeps'
          /\ Operators(qeps[p].operator_costs) \subseteq Operators(qeps'[p].operator_costs)
          /\ (p # <<>> /\ p[Len(p)] = SubqueryRootKey /\ NodeBool(qeps, p)) =>
                /\ NodeBool(qeps', p)
                /\ ChildKeys(qeps, p) \subseteq ChildKeys(qeps', p)]_vars

\* inspect went through a subquery root that holds a child with costs and gave that
\* child an empty subquery root of its own
LearnedHistoryIsKeptWitness ==
    /\ result.call = "inspect"
    /\ \E p \in DOMAIN qeps :
          /\ p # <<>>
          /\ p[Len(p)] = SubqueryRootKey
          /\ \E k \in ChildKeys(qeps, p) :
                /\ qeps[Append(p, k)].operator_costs # <<>>
                /\ Append(Append(p, k), SubqueryRootKey) \in DOMAIN qeps

(***************************************************************************)
(* Stringification around format_query.                                    *)
(***************************************************************************)
\* C28: after a call of format_query, whether it returned or failed, the __str__
\* implementations of StaticValueExpression, CastExpression and Explain are the
\* ones in effect before the call.
FormatQueryRestoresStr ==
    query_result.call = "format_query" => str_methods = query_result.before

\* the calls that return do restore the three implementations
ReturningFormatQueryRestoresStr ==
    (query_result.call = "format_query" /\ ~query_result.raised) =>
        str_methods = query_result.before

(***************************************************************************)
(* The capability whitelist and the lookup tables.                         *)
(***************************************************************************)
\* every operator of the assignment is one supports_hint returns true for
AllSupported(operators) ==
    /\ \A i \in 1..Len(operators.global_settings) :
          supports_hint(operators.global_settings[i].operator)
    /\ \A i \in 1..Len(operators.scan_operators) :
          supports_hint(operators.scan_operators[i].operator)
    /\ \A i \in 1..Len(operators.join_operators) :
          supports_hint(operators.join_operators[i].operator)

\* C29: an operator assignment all of whose operators supports_hint returns true
\* for, as global settings and as scan and join operators, is compiled by the
\* operator-hint stage without a lookup failure.
WhitelistAgreesWithLookupTables ==
    (/\ hint_result.call = "generate_hints"
     /\ hint_result.physical_operators # Absent
     /\ AllSupported(hint_result.physical_operators)) =>
        ~ generate_mysql_operator_hints(hint_result.physical_operators,
                                        hint_result.iteration).raised

(***************************************************************************)
(* Join hints and join paths of a HintedMospQuery.                         *)
(***************************************************************************)
HintedJoinIds(self) ==
    {self.join_hints[i].key : i \in 1..Len(self.join_hints)}
    \cup {self.cardinality_bounds[i].key : i \in 1..Len(self.cardinality_bounds)}

\* C30: after every sequence of force_nestloop, force_hashjoin, force_mergejoin,
\* set_upperbound and merge_with calls, each join id in join_hints or in
\* cardinality_bounds has an entry in join_paths, and generate_sqlcomment does not
\* fail on a missing key.
EveryHintedJoinHasAPath ==
    /\ \A jid \in HintedJoinIds(hinted_query) : HasKey(hinted_query.join_paths, jid)
    /\ hinted_call.call = "generate_sqlcomment" => ~ hinted_call.raised

\* without merge_with, and with the joins of the query itself and its direct
\* subqueries only, each hinted join has its path
HintedOwnJoinsHaveAPath ==
    \A jid \in HintedJoinIds(other_query) : HasKey(other_query.join_paths, jid)
====
